---------------------------- MODULE Spec2Model ----------------------------
(***************************************************************************)
(* A model of the use / unuse activation ledger of bvz2000/use.            *)
(*                                                                         *)
(* Two ledgers exist in the sources:                                       *)
(*   - the history-file ledger of src/use.py (use, unuse, write_history),  *)
(*     a configparser file with one section per branch;                    *)
(*   - the environment-variable ledger of src/unuse.py (USE_BRANCHES and   *)
(*     the USE_<BRANCH>_* variables).  Its activation side is called by    *)
(*     src/usemain.py but is not part of the sources; it is modelled from  *)
(*     the specification (EnvUse below).                                   *)
(*                                                                         *)
(* Strings that the code splits, strips or searches are sequences of       *)
(* one-character strings, so that split(":"), split("="), strip("'") and   *)
(* the substring test of Python are computed as the code computes them.    *)
(* Names (aliases, variables, branches, packages) are never taken apart by *)
(* the code paths modelled here and are atomic strings.                    *)
(***************************************************************************)
EXTENDS Integers, Sequences, FiniteSets, TLC

VARIABLES
    mode,        \* "file": the session runs src/use.py; "env": src/unuse.py
    aliases,     \* live alias table of the shell: name -> value
    env,         \* live environment of the shell (os.environ): name -> value
    hist,        \* the history file: sequence of sections (use.py)
    useBranches, \* USE_BRANCHES: sequence of <<branch, name, path>> (unuse.py)
    branchVars,  \* the USE_<BRANCH>_* variables: KEY -> record of fields
    now,         \* int(time.time())
    child,       \* a second shell session on the history-file ledger: the
                 \* file USE_PKG_HISTORY_FILE names in it, its aliases and
                 \* variables, and its history file when that is its own
    trace        \* the calls and hand edits of the session so far, in order:
                 \* [op, arg, pre: the state just before it, out: what it printed]

vars == <<mode, aliases, env, hist, useBranches, branchVars, now, child, trace>>

(***************************************************************************)
(* Bounds of the model.                                                    *)
(***************************************************************************)
\* time.time() advances at most to this value
MaxTime == 1
\* a session on the history file makes at most this many calls and hand edits
MaxCalls == 4
\* and a session on the USE_* variables at most this many
MaxEnvCalls == 5
\* of which at most this many are hand edits
MaxHand == 1
\* a command line of a package has at most this many parts
MaxParts == 2
\* and at most this many command lines are formatted in a run
MaxFormats == 1

(***************************************************************************)
(* Strings as sequences of characters.                                     *)
(***************************************************************************)
\* str.split(sep) for a one-character separator: "".split(":") = [""]
RECURSIVE SplitOn(_, _)
SplitOn(s, c) ==
    IF \A i \in 1..Len(s) : s[i] # c
    THEN <<s>>
    ELSE LET i == CHOOSE j \in 1..Len(s) :
                      s[j] = c /\ \A k \in 1..(j - 1) : s[k] # c
         IN  <<SubSeq(s, 1, i - 1)>> \o SplitOn(SubSeq(s, i + 1, Len(s)), c)

\* sep.join(parts)
RECURSIVE JoinWith(_, _)
JoinWith(parts, c) ==
    IF Len(parts) = 0 THEN <<>>
    ELSE IF Len(parts) = 1 THEN parts[1]
    ELSE parts[1] \o <<c>> \o JoinWith(Tail(parts), c)

\* str.lstrip(c) / str.rstrip(c) / str.strip(c) for a one-character set
RECURSIVE LStrip(_, _)
LStrip(s, c) ==
    IF Len(s) > 0 /\ s[1] = c THEN LStrip(Tail(s), c) ELSE s

RECURSIVE RStrip(_, _)
RStrip(s, c) ==
    IF Len(s) > 0 /\ s[Len(s)] = c THEN RStrip(SubSeq(s, 1, Len(s) - 1), c) ELSE s

Strip(s, c) == LStrip(RStrip(s, c), c)

\* Python's "a in b" for two strings
IsSubstring(a, b) ==
    \E i \in 1..(Len(b) + 1) :
        i + Len(a) - 1 <= Len(b) /\ SubSeq(b, i, i + Len(a) - 1) = a

\* Python's "x in lst" and lst.remove(x) (first occurrence only)
InList(x, lst) == \E i \in 1..Len(lst) : lst[i] = x

RemoveFirst(lst, x) ==
    IF ~InList(x, lst) THEN lst
    ELSE LET i == CHOOSE j \in 1..Len(lst) :
                      lst[j] = x /\ \A k \in 1..(j - 1) : lst[k] # x
         IN  SubSeq(lst, 1, i - 1) \o SubSeq(lst, i + 1, Len(lst))

(***************************************************************************)
(* Python dictionaries: functions with a finite domain.  Iteration follows *)
(* insertion order; every dictionary of the model is filled in the order   *)
(* of KeyOrder (the order of the sections and keys of the package files).  *)
(***************************************************************************)
EmptyDict == <<>>
Put(d, k, v) == [x \in (DOMAIN d) \cup {k} |-> IF x = k THEN v ELSE d[x]]
Del(d, k) == [x \in (DOMAIN d) \ {k} |-> d[x]]
Has(d, k) == k \in DOMAIN d

KeyOrder == <<"ll", "la", "lv", "E", "F", "P", "Q">>

\* the keys of a dictionary, in iteration order
Keys(d) == LET In(k) == k \in DOMAIN d IN SelectSeq(KeyOrder, In)


(***************************************************************************)
(* The package files on disk (the Package Definitions).  Paths and values  *)
(* are strings, spelled character by character.                            *)
(***************************************************************************)
Sl == "/"
P_a == <<Sl, "a">>
P_b == <<Sl, "b">>
P_c == <<Sl, "c">>
P_u == <<Sl, "u">>
P_ab == <<Sl, "a", Sl, "b">>

V_a == <<"a">>
V_b == <<"b">>
V_aEqb == <<"a", "=", "b">>
V_bEqa == <<"b", "=", "a">>
V_0 == <<"0">>
V_1 == <<"1">>
V_2 == <<"2">>
V_3 == <<"3">>
V_empty == <<>>
\* "$VERSION", and the version of the directory the package files are in
V_dollarVersion == <<"$", "V", "E", "R", "S", "I", "O", "N">>
V_version == <<"v", "1">>
\* the command lines of the packages; C_case holds ";;" as the case
\* statement of the shell does
C_useA == <<"u", "s", "e", "A">>
C_unuseA == <<"u", "n", "u", "s", "e", "A">>
C_unuseB == <<"u", "n", "u", "s", "e", "B">>
C_case == <<"c", ";", ";", "e">>

\* get_use_package_names_and_paths_from_env: the package names of USE_PKG_PACKAGES
PkgNames == {"pA", "pB", "pC"}

\* the packages used in the sessions on the USE_* variables
EnvPkgNames == {"pA", "pB"}

\* two packages of different branches that give the same alias and the same
\* variable different values
OrderPkgNames == {"pA", "pD"}

\* a package with two path variables next to a package with one
DetPkgNames == {"pA", "pE"}

\* a package with two environment variables, and a package of another
\* branch that sets the first of them
LaterPkgNames == {"pF", "pD"}

\* three branches on the path variables P and Q: pA and pE list the same
\* entry for P, pE and pH list different entries for Q, and pH lists for P
\* the entry pE lists for Q
PathPkgNames == {"pA", "pE", "pH"}

\* three branches, two of them with names that differ in case only: X of pA
\* and x of pG
CasePkgNames == {"pA", "pG", "pE"}

\* verify_and_read_use_pkg + get_use_package_*: the parsed sections of a file
ReadUsePkg(n) ==
    CASE n = "pA" ->
           [name |-> "pA", file |-> "pA.use", branch |-> "X",
            alias |-> [ll |-> V_a, la |-> V_aEqb], env |-> [E |-> V_1],
            prepends |-> [P |-> <<P_a>>], postpends |-> EmptyDict,
            use_cmds |-> <<C_useA>>, unuse_cmds |-> <<C_unuseA>>]
      [] n = "pB" ->
           [name |-> "pB", file |-> "pB.use", branch |-> "Y",
            alias |-> [ll |-> V_a, la |-> V_aEqb], env |-> [E |-> V_2],
            prepends |-> [P |-> <<P_b>>], postpends |-> EmptyDict,
            use_cmds |-> <<>>, unuse_cmds |-> <<C_unuseB>>]
      [] n = "pC" ->
           [name |-> "pC", file |-> "pC.use", branch |-> "X",
            alias |-> [ll |-> V_b, lv |-> V_dollarVersion], env |-> [E |-> V_3],
            prepends |-> EmptyDict, postpends |-> [P |-> <<P_c>>],
            use_cmds |-> <<>>, unuse_cmds |-> <<C_case>>]
      [] n = "pE" ->
           [name |-> "pE", file |-> "pE.use", branch |-> "W",
            alias |-> EmptyDict, env |-> EmptyDict,
            prepends |-> [P |-> <<P_a>>], postpends |-> [Q |-> <<P_c>>],
            use_cmds |-> <<>>, unuse_cmds |-> <<>>]
      [] n = "pF" ->
           [name |-> "pF", file |-> "pF.use", branch |-> "U",
            alias |-> EmptyDict, env |-> [E |-> V_1, F |-> V_2],
            prepends |-> EmptyDict, postpends |-> EmptyDict,
            use_cmds |-> <<>>, unuse_cmds |-> <<>>]
      [] n = "pH" ->
           [name |-> "pH", file |-> "pH.use", branch |-> "V",
            alias |-> EmptyDict, env |-> EmptyDict,
            prepends |-> [Q |-> <<P_b>>], postpends |-> [P |-> <<P_c>>],
            use_cmds |-> <<>>, unuse_cmds |-> <<>>]
      [] n = "pD" ->
           [name |-> "pD", file |-> "pD.use", branch |-> "Z",
            alias |-> [la |-> V_bEqa], env |-> [E |-> V_2],
            prepends |-> EmptyDict, postpends |-> EmptyDict,
            use_cmds |-> <<>>, unuse_cmds |-> <<>>]
      [] n = "pG" ->
           [name |-> "pG", file |-> "pG.use", branch |-> "x",
            alias |-> EmptyDict, env |-> [F |-> V_2],
            prepends |-> EmptyDict, postpends |-> EmptyDict,
            use_cmds |-> <<>>, unuse_cmds |-> <<>>]

(***************************************************************************)
(* The live shell: the alias table and the environment, the text `alias`   *)
(* prints (handed to the program on stdin), and the evaluation of the      *)
(* directives the program prints.                                          *)
(***************************************************************************)
Shell == [al |-> aliases, ev |-> env, ub |-> useBranches, bv |-> branchVars]

\* one line of the output of the shell's `alias`: alias name='value'\n
AliasLine(n, v) == <<"alias ", n, "=", "'">> \o v \o <<"'", "\n">>

\* list(sys.stdin): the lines `alias` prints for the alias table al
RawAliases(al) == [i \in 1..Len(Keys(al)) |-> AliasLine(Keys(al)[i], al[Keys(al)[i]])]

\* a directive: set/unset an alias or a variable, or run a raw command
Dir(k, n, v) == [k |-> k, n |-> n, v |-> v, b |-> <<>>]

\* the two directives on the ledger variables of src/unuse.py: the nine
\* "unset USE_<KEY>_..." of a branch, and "export USE_BRANCHES=..."
DirUnsetBranchVars(key) == [k |-> "unset_branch_vars", n |-> key, v |-> <<>>, b |-> <<>>]
DirExportBranches(entries) ==
    [k |-> "export_branches", n |-> "USE_BRANCHES", v |-> <<>>, b |-> entries]

\* the shell evaluates one directive
Eval(sh, d) ==
    CASE d.k = "alias"   -> [sh EXCEPT !.al = Put(sh.al, d.n, d.v)]
      [] d.k = "unalias" -> [sh EXCEPT !.al = Del(sh.al, d.n)]
      [] d.k = "export"  -> [sh EXCEPT !.ev = Put(sh.ev, d.n, d.v)]
      [] d.k = "unset"   -> [sh EXCEPT !.ev = Del(sh.ev, d.n)]
      [] d.k = "unset_branch_vars" -> [sh EXCEPT !.bv = Del(sh.bv, d.n)]
      [] d.k = "export_branch_vars" -> [sh EXCEPT !.bv = Put(sh.bv, d.n, d.b[1])]
      [] d.k = "export_branches"   -> [sh EXCEPT !.ub = d.b]
      [] OTHER           -> sh

\* the shell evaluates the printed directives in order
RECURSIVE EvalAll(_, _)
EvalAll(sh, ds) ==
    IF Len(ds) = 0 THEN sh ELSE EvalAll(Eval(sh, ds[1]), Tail(ds))

(***************************************************************************)
(* src/use.py: the history-file ledger.                                    *)
(* The packages of the model have no use-scripts / unuse-scripts sections  *)
(* and their values hold no built-in placeholder ($VERSION, ...).          *)
(***************************************************************************)
\* merge_dict_of_lists(dict_a, dict_b): lists of a key in both are concatenated
merge_dict_of_lists(dict_a, dict_b) ==
    [k \in (DOMAIN dict_a) \cup (DOMAIN dict_b) |->
        IF k \in DOMAIN dict_a
        THEN (IF k \in DOMAIN dict_b THEN dict_a[k] \o dict_b[k] ELSE dict_a[k])
        ELSE dict_b[k]]

\* format_existing_aliases: raw_alias.split("alias ")[1], then split("=")[0]
\* is the key and split("=")[1].rstrip("\n").strip("'") the value
RECURSIVE format_existing_aliases(_)
format_existing_aliases(raw_aliases) ==
    IF Len(raw_aliases) = 0 THEN EmptyDict
    ELSE LET n == Len(raw_aliases)
             raw_alias == SplitOn(raw_aliases[n], "alias ")[2]
             key == SplitOn(raw_alias, "=")[1]
             value == RStrip(SplitOn(raw_alias, "=")[2], "\n")
         IN  Put(format_existing_aliases(SubSeq(raw_aliases, 1, n - 1)),
                 key[1], Strip(value, "'"))

\* str.replace(old, new)
RECURSIVE Replace(_, _, _)
Replace(s, old, new) ==
    IF Len(old) = 0 \/ Len(s) < Len(old) THEN s
    ELSE IF SubSeq(s, 1, Len(old)) = old
    THEN new \o Replace(SubSeq(s, Len(old) + 1, Len(s)), old, new)
    ELSE <<s[1]>> \o Replace(Tail(s), old, new)

\* get_built_in_vars: the built-in variables of a package file that lies in
\* /v1/w, as (key, value) pairs, the longest keys first
\* (sort_list_of_strings_by_length, inverse)
get_built_in_vars(use_pkg_path) ==
    << [key |-> <<"P", "R", "E", "_", "V", "E", "R", "S", "I", "O", "N", "_",
                  "P", "A", "T", "H">>,
        value |-> <<Sl>>],
       [key |-> <<"U", "S", "E", "_", "P", "K", "G", "_", "P", "A", "T", "H">>,
        value |-> <<Sl>> \o V_version \o <<Sl, "w">>],
       [key |-> <<"V", "E", "R", "S", "I", "O", "N", "_", "P", "A", "T", "H">>,
        value |-> <<Sl>> \o V_version],
       [key |-> <<"V", "E", "R", "S", "I", "O", "N">>,
        value |-> V_version] >>

\* output.replace("$" + key, variables[key]) for every key
RECURSIVE substitute(_, _)
substitute(output, variables) ==
    IF Len(variables) = 0 THEN output
    ELSE substitute(Replace(output, <<"$">> \o variables[1].key, variables[1].value),
                    Tail(variables))

\* a sort that leaves the list as it is
sort_list_as_given(unsorted_list, inverse) == unsorted_list

\* sort_list_of_strings_by_length: the items are collected per length, in
\* their order, and the groups are taken by length, longest first when inverse
sort_list_of_strings_by_length(unsorted_list, inverse) ==
    LET RECURSIVE Extend(_, _)
        Extend(output, keys) ==
            IF keys = {} THEN output
            ELSE LET key == CHOOSE k \in keys :
                                \A other \in keys :
                                    IF inverse THEN other <= k ELSE k <= other
                     OfLength(item) == Len(item) = key
                 IN  Extend(output \o SelectSeq(unsorted_list, OfLength), keys \ {key})
    IN  Extend(<<>>, {Len(unsorted_list[i]) : i \in 1..Len(unsorted_list)})

\* variables[key] of a dictionary held as (key, value) pairs in insertion order
value_of(variables, key) ==
    variables[CHOOSE i \in 1..Len(variables) : variables[i].key = key].value

\* format_cmds_for_shell, the loop over replace_keys for one command
RECURSIVE replace_keys_in(_, _, _)
replace_keys_in(cmd, replace_keys, variables) ==
    IF Len(replace_keys) = 0 THEN cmd
    ELSE replace_keys_in(Replace(cmd, <<"$">> \o replace_keys[1],
                                 value_of(variables, replace_keys[1])),
                         Tail(replace_keys), variables)

\* format_cmds_for_shell, one command: the keys of the dictionary are sorted
\* by length, longest first, and replaced in that order
format_cmd_for_shell(cmd, variables) ==
    replace_keys_in(cmd,
                    sort_list_of_strings_by_length(
                        [i \in 1..Len(variables) |-> variables[i].key], TRUE),
                    variables)

\* format_aliases_for_shell: alias name='value' for every alias of the
\* package, with the built-in variables replaced
format_aliases_for_shell(als, variables) ==
    [i \in 1..Len(Keys(als)) |->
        Dir("alias", Keys(als)[i], substitute(als[Keys(als)[i]], variables))]

\* format_env_vars_for_shell: export name='value' for every variable, with
\* the built-in variables replaced
format_env_vars_for_shell(env_vars, variables) ==
    [i \in 1..Len(Keys(env_vars)) |->
        Dir("export", Keys(env_vars)[i],
            substitute(env_vars[Keys(env_vars)[i]], variables))]

\* os.environ[path_var] with "" for a missing variable, then split(":")
current_paths_of(environ, path_var) ==
    SplitOn(IF Has(environ, path_var) THEN environ[path_var] ELSE <<>>, ":")

\* a merge that moves the listed entries: the prepend list, the live entries
\* that are in neither list, the postpend list
new_paths_value_listed_moved(path_prepends, path_postpends, environ, path_var) ==
    LET prepends == IF Has(path_prepends, path_var) THEN path_prepends[path_var] ELSE <<>>
        postpends == IF Has(path_postpends, path_var) THEN path_postpends[path_var] ELSE <<>>
        NotListed(path) == ~InList(path, prepends \o postpends)
    IN  JoinWith(prepends \o SelectSeq(current_paths_of(environ, path_var), NotListed)
                 \o postpends, ":")

\* format_paths_for_shell, one path variable: the value it exports
new_paths_value(path_prepends, path_postpends, environ, path_var) ==
    LET prepends == IF Has(path_prepends, path_var) THEN path_prepends[path_var] ELSE <<>>
        postpends == IF Has(path_postpends, path_var) THEN path_postpends[path_var] ELSE <<>>
        current_paths == current_paths_of(environ, path_var)
        NotCurrent(new_path) == ~InList(new_path, current_paths)
        actual_prepends == SelectSeq(prepends, NotCurrent)
        actual_postpends == SelectSeq(postpends, NotCurrent)
    IN  JoinWith(actual_prepends \o current_paths \o actual_postpends, ":")

\* a list, last element first
Reverse(lst) == [i \in 1..Len(lst) |-> lst[Len(lst) + 1 - i]]

\* format_paths_for_shell: one export per path variable of the package.
\* path_vars = list(set(path_vars)): the order is the one of the string
\* hashes of the process (reversed: the other order of two variables)
format_paths_for_shell(path_prepends, path_postpends, environ, reversed) ==
    LET keys == Keys(merge_dict_of_lists(path_prepends, path_postpends))
        path_vars == IF reversed THEN Reverse(keys) ELSE keys
    IN  [i \in 1..Len(path_vars) |->
            Dir("export", path_vars[i],
                new_paths_value(path_prepends, path_postpends, environ, path_vars[i]))]

\* format_cmds_for_shell: the raw commands, as they are
format_cmds_for_shell(cmds) ==
    [i \in 1..Len(cmds) |-> Dir("cmd", "", cmds[i])]

\* while ";;" in output: output = output.replace(";;", ";")
RECURSIVE collapse(_)
collapse(output) ==
    IF \E i \in 1..(Len(output) - 1) : output[i] = ";" /\ output[i + 1] = ";"
    THEN collapse(Replace(output, <<";", ";">>, <<";">>))
    ELSE output

\* export_shell_command: the directives are joined with ";" and every ";;"
\* of the joined text, the ones inside a directive included, becomes ";"
export_shell_command(cmd) ==
    [i \in 1..Len(cmd) |-> [cmd[i] EXCEPT !.v = collapse(@)]]

\* get_matching_aliases: the existing aliases the package sets, with their values
get_matching_aliases(new_aliases, existing_aliases) ==
    [a \in (DOMAIN existing_aliases) \cap (DOMAIN new_aliases) |-> existing_aliases[a]]

\* get_matching_env_vars: "if existing_var_value:" drops a missing variable
\* and a variable whose value is the empty string
get_matching_env_vars(new_env_vars, environ) ==
    [v \in {x \in DOMAIN new_env_vars : Has(environ, x) /\ environ[x] # <<>>} |->
        environ[v]]

\* get_matching_paths: the path variables of the package that exist, with values
get_matching_paths(path_prepends, path_postpends, environ) ==
    [v \in ((DOMAIN path_prepends) \cup (DOMAIN path_postpends)) \cap (DOMAIN environ) |->
        environ[v]]

\* hist_obj.has_section / hist_obj.sections() / hist_obj.get(section, ...)
\* a history file that never reports a section
has_section_never(history, branch) == FALSE

\* hist_obj.has_section(branch)
has_section(history, branch) == \E i \in 1..Len(history) : history[i].branch = branch

section_of(history, branch) ==
    history[CHOOSE i \in 1..Len(history) : history[i].branch = branch]

\* hist_obj.remove_section(branch)
remove_section(history, branch) ==
    LET Other(sec) == sec.branch # branch IN SelectSeq(history, Other)

\* lst.remove(x) for every x of removes, in order
RECURSIVE RemoveEach(_, _)
RemoveEach(lst, removes) ==
    IF Len(removes) = 0 THEN lst
    ELSE RemoveEach(RemoveFirst(lst, removes[1]), Tail(removes))

\* the sections written with a greater timestamp than the section of branch
later_sections(history, branch) ==
    LET timestamp == section_of(history, branch).timestamp
        Later(sec) == sec.branch # branch /\ sec.timestamp > timestamp
    IN  SelectSeq(history, Later)

\* use.py unuse_paths, first half: the paths to remove from path_var.
\* "actual_path in history_paths[path_var]" tests a path against the stored
\* string; "actual_path in unuse_paths_dict[path_var]" tests a path of the
\* list against that same list.
hist_paths_to_remove(history, branch, path_var) ==
    LET sec == section_of(history, branch)
        unuse_paths_dict == merge_dict_of_lists(sec.new_path_prepends,
                                                sec.new_path_postpends)
        history_paths == sec.existing_path_vars
        InHistory(actual_path) == IsSubstring(actual_path, history_paths[path_var])
        after_history ==
            IF Has(history_paths, path_var)
            THEN RemoveEach(unuse_paths_dict[path_var],
                            SelectSeq(unuse_paths_dict[path_var], InHistory))
            ELSE unuse_paths_dict[path_var]
        others == later_sections(history, branch)
        RECURSIVE AfterOthers(_, _)
        AfterOthers(lst, i) ==
            IF i > Len(others) THEN lst
            ELSE LET other_paths_dict ==
                         merge_dict_of_lists(others[i].new_path_prepends,
                                             others[i].new_path_postpends)
                     InSelf(actual_path) == InList(actual_path, lst)
                 IN  AfterOthers(IF Has(other_paths_dict, path_var)
                                 THEN RemoveEach(lst, SelectSeq(lst, InSelf))
                                 ELSE lst,
                                 i + 1)
    IN  AfterOthers(after_history, 1)

\* use.py unuse_paths, second half, one path variable: the paths left in it
hist_shell_paths_left(history, branch, environ, path_var) ==
    LET shell_paths == current_paths_of(environ, path_var)
        unuse_paths == hist_paths_to_remove(history, branch, path_var)
        Live(unuse_path) == InList(unuse_path, shell_paths)
    IN  RemoveEach(shell_paths, SelectSeq(unuse_paths, Live))

\* use.py unuse_paths: "bash_cmd = [unset ...]" replaces what was collected
hist_unuse_paths(history, branch, environ) ==
    LET sec == section_of(history, branch)
        path_vars == Keys(merge_dict_of_lists(sec.new_path_prepends,
                                              sec.new_path_postpends))
        RECURSIVE Cmds(_, _)
        Cmds(bash_cmd, i) ==
            IF i > Len(path_vars) THEN bash_cmd
            ELSE LET shell_paths ==
                         hist_shell_paths_left(history, branch, environ, path_vars[i])
                 IN  Cmds(IF Len(shell_paths) > 0
                          THEN Append(bash_cmd,
                                      Dir("export", path_vars[i], JoinWith(shell_paths, ":")))
                          ELSE <<Dir("unset", path_vars[i], <<>>)>>,
                          i + 1)
    IN  Cmds(<<>>, 1)

\* use.py unuse_aliases, one alias: the "continue" of the loop over the other
\* sections continues that inner loop, so a later section changes nothing
hist_unuse_alias(history, branch, shell_aliases, alias) ==
    LET sec == section_of(history, branch)
        new_aliases == sec.new_aliases
        prev_aliases == sec.existing_aliases
    IN  IF ~Has(shell_aliases, alias) THEN <<>>
        ELSE IF shell_aliases[alias] # new_aliases[alias] THEN <<>>
        ELSE IF ~Has(prev_aliases, alias) THEN <<Dir("unalias", alias, <<>>)>>
        ELSE <<Dir("alias", alias, prev_aliases[alias])>>

\* the concatenation of a list of lists of directives
RECURSIVE Concat(_)
Concat(lists) ==
    IF Len(lists) = 0 THEN <<>> ELSE lists[1] \o Concat(Tail(lists))

\* use.py unuse_aliases
hist_unuse_aliases(history, branch, raw_aliases) ==
    LET shell_aliases == format_existing_aliases(raw_aliases)
        keys == Keys(section_of(history, branch).new_aliases)
    IN  Concat([i \in 1..Len(keys) |->
                   hist_unuse_alias(history, branch, shell_aliases, keys[i])])

\* use.py unuse_env_vars, one variable: as for an alias, a later section
\* changes nothing
hist_unuse_env_var(history, branch, environ, var) ==
    LET sec == section_of(history, branch)
        new_vars == sec.new_env_vars
        prev_vars == sec.existing_env_vars
    IN  IF ~Has(environ, var) THEN <<>>
        ELSE IF environ[var] # new_vars[var] THEN <<>>
        ELSE IF ~Has(prev_vars, var) THEN <<Dir("unset", var, <<>>)>>
        ELSE <<Dir("export", var, prev_vars[var])>>

\* use.py unuse_env_vars
hist_unuse_env_vars(history, branch, environ) ==
    LET keys == Keys(section_of(history, branch).new_env_vars)
    IN  Concat([i \in 1..Len(keys) |->
                   hist_unuse_env_var(history, branch, environ, keys[i])])

\* a lookup that falls back on the first section of the file
hist_find_branch_any(history, use_pkg_name) ==
    IF \E i \in 1..Len(history) : history[i].name = use_pkg_name
    THEN history[CHOOSE i \in 1..Len(history) : history[i].name = use_pkg_name].branch
    ELSE IF Len(history) > 0 THEN history[1].branch ELSE "None"

\* use.py unuse, lines 1798-1805: the first section whose name is use_pkg_name
hist_find_branch(history, use_pkg_name) ==
    IF \E i \in 1..Len(history) : history[i].name = use_pkg_name
    THEN history[CHOOSE i \in 1..Len(history) :
                     /\ history[i].name = use_pkg_name
                     /\ \A j \in 1..(i - 1) : history[j].name # use_pkg_name].branch
    ELSE "None"

\* ast.literal_eval(hist_obj.get(branch, field)) raises: the text of the
\* field is not a Python literal
hist_unparsable(history, branch, field) ==
    field \in section_of(history, branch).damaged

\* use.py unuse raises before it writes the file or prints: unuse_aliases
\* parses new_aliases of the branch first, and both unuse_aliases and
\* unuse_env_vars parse new_aliases of every later section once an alias or
\* a variable of the branch still has the value the package gave it
hist_unuse_raises(history, branch, raw_aliases, environ) ==
    LET sec == section_of(history, branch)
        shell_aliases == format_existing_aliases(raw_aliases)
        later == later_sections(history, branch)
    IN  \/ hist_unparsable(history, branch, "new_aliases")
        \/ /\ \E i \in 1..Len(later) :
                  hist_unparsable(history, later[i].branch, "new_aliases")
           /\ \/ \E alias \in DOMAIN sec.new_aliases :
                     /\ Has(shell_aliases, alias)
                     /\ shell_aliases[alias] = sec.new_aliases[alias]
              \/ \E var \in DOMAIN sec.new_env_vars :
                     /\ Has(environ, var)
                     /\ environ[var] = sec.new_env_vars[var]

\* use.py unuse: the directives printed and the history file left
hist_unuse(use_pkg_name, raw_aliases, environ, history) ==
    LET branch == hist_find_branch(history, use_pkg_name)
    IN  IF branch = "None"
        THEN [out |-> <<>>, hist |-> history, raised |-> FALSE]
        ELSE IF hist_unuse_raises(history, branch, raw_aliases, environ)
        THEN [out |-> <<>>, hist |-> history, raised |-> TRUE]
        ELSE [raised |-> FALSE,
              out |-> export_shell_command(
                          hist_unuse_paths(history, branch, environ)
                          \o hist_unuse_aliases(history, branch, raw_aliases)
                          \o hist_unuse_env_vars(history, branch, environ)
                          \o format_cmds_for_shell(
                                 section_of(history, branch).unuse_cmds)),
              hist |-> remove_section(history, branch)]

\* write_history: sys.exit(1) when the branch still has a section
write_history(history, section) ==
    IF has_section(history, section.branch)
    THEN [exit |-> TRUE, hist |-> history]
    ELSE [exit |-> FALSE, hist |-> Append(history, section)]

\* use.py use, the end: what is printed after write_history
hist_use_written(unused, bash_cmd, written) ==
    [out |-> unused.out
             \o (IF written.exit THEN <<>> ELSE export_shell_command(bash_cmd)),
     hist |-> written.hist,
     exit |-> written.exit]

\* use.py use, after the branch's earlier activation was unwound as unused
hist_use_unwound(pkg, use_pkg_name, raw_aliases, environ, history, time, reversed, unused) ==
    LET substitutions == get_built_in_vars(pkg.file)
        bash_cmd == format_aliases_for_shell(pkg.alias, substitutions)
                    \o format_env_vars_for_shell(pkg.env, substitutions)
                    \o format_paths_for_shell(pkg.prepends, pkg.postpends, environ,
                                              reversed)
                    \o format_cmds_for_shell(pkg.use_cmds)
        existing_aliases == format_existing_aliases(raw_aliases)
        section ==
            [branch |-> pkg.branch,
             timestamp |-> time,
             name |-> use_pkg_name,
             use_package |-> pkg.file,
             new_aliases |-> pkg.alias,
             new_env_vars |-> pkg.env,
             new_path_prepends |-> pkg.prepends,
             new_path_postpends |-> pkg.postpends,
             use_cmds |-> pkg.use_cmds,
             unuse_cmds |-> pkg.unuse_cmds,
             existing_aliases |-> get_matching_aliases(pkg.alias, existing_aliases),
             existing_env_vars |-> get_matching_env_vars(pkg.env, environ),
             existing_path_vars |->
                 get_matching_paths(pkg.prepends, pkg.postpends, environ),
             damaged |-> {}]
    IN  IF unused.raised
        THEN [out |-> <<>>, hist |-> history, exit |-> TRUE]
        ELSE hist_use_written(unused, bash_cmd,
                              write_history(unused.hist, section))

\* use.py use.  The unuse of the previous section prints its directives and
\* rewrites the history file; os.environ and raw_aliases of this process are
\* what they were when it started.  A section is written with every field
\* parsable (damaged is the set of its fields whose text no longer is); an
\* exception of the unuse ends the process.
hist_use(pkg_name, raw_aliases, environ, history, time, reversed) ==
    LET pkg == ReadUsePkg(pkg_name)
        reuse == has_section(history, pkg.branch)
        use_pkg_name == IF reuse THEN section_of(history, pkg.branch).name
                        ELSE pkg_name
    IN  hist_use_unwound(
            pkg, use_pkg_name, raw_aliases, environ, history, time, reversed,
            IF reuse
            THEN hist_unuse(use_pkg_name, raw_aliases, environ, history)
            ELSE [out |-> <<>>, hist |-> history, raised |-> FALSE])

(***************************************************************************)
(* src/unuse.py: the environment-variable ledger.                          *)
(* USE_BRANCHES is a ":"-joined list of "branch,name,path" entries; the    *)
(* names of the model hold neither ":" nor ",", so the list is kept as a   *)
(* sequence of entries.  Every function reads os.environ of the process    *)
(* (environ, branches, branch_vars below) and prints its directives as it  *)
(* goes.                                                                   *)
(***************************************************************************)
\* str.upper() on the branch names of the model
Upper(branch) ==
    CASE branch = "x" -> "X"
      [] branch = "y" -> "Y"
      [] OTHER -> branch

\* os.getenv("USE_" + branch.upper() + "_" + field, default)
getenv_branch(branch_vars, branch, field, default) ==
    IF Has(branch_vars, Upper(branch)) /\ field \in DOMAIN branch_vars[Upper(branch)]
    THEN branch_vars[Upper(branch)][field]
    ELSE default

\* a choice of the subsequent packages that takes every other entry
get_subsequent_use_packages_others(branches, branch) ==
    LET Other(use_branch) == use_branch.branch # branch
    IN  SelectSeq(branches, Other)

\* get_subsequent_use_packages: the entries after the first entry of branch
get_subsequent_use_packages(branches, branch) ==
    IF \E i \in 1..Len(branches) : branches[i].branch = branch
    THEN LET first == CHOOSE i \in 1..Len(branches) :
                          /\ branches[i].branch = branch
                          /\ \A j \in 1..(i - 1) : branches[j].branch # branch
         IN  SubSeq(branches, first + 1, Len(branches))
    ELSE <<>>

\* the merge, over the subsequent branches, of the dictionaries of fields
RECURSIVE subsequent_merge(_, _, _)
subsequent_merge(branch_vars, subsequent_branches, fields) ==
    IF Len(subsequent_branches) = 0 THEN EmptyDict
    ELSE LET n == Len(subsequent_branches)
             RECURSIVE OfBranch(_, _)
             OfBranch(acc, i) ==
                 IF i > Len(fields) THEN acc
                 ELSE OfBranch(merge_dict_of_lists(
                                   acc,
                                   getenv_branch(branch_vars,
                                                 subsequent_branches[n].branch,
                                                 fields[i], EmptyDict)),
                               i + 1)
         IN  OfBranch(subsequent_merge(branch_vars,
                                       SubSeq(subsequent_branches, 1, n - 1), fields),
                      1)

\* a removal that drops the whole variable
remove_paths_unset_var(environ, path_var, paths_to_remove) ==
    <<Dir("unset", path_var, <<>>)>>

\* remove_paths_from_path_var: nothing for an empty or missing variable
remove_paths_from_path_var(environ, path_var, paths_to_remove) ==
    IF ~Has(environ, path_var) \/ environ[path_var] = <<>> THEN <<>>
    ELSE LET current_path_var_values ==
                 RemoveEach(SplitOn(environ[path_var], ":"), paths_to_remove)
         IN  IF Len(current_path_var_values) = 0
             THEN <<Dir("unset", path_var, <<>>)>>
             ELSE <<Dir("export", path_var, JoinWith(current_path_var_values, ":"))>>

\* a choice of the paths to remove that takes every path the branch lists
env_paths_to_remove_listed(branches, branch_vars, branch, path_var) ==
    merge_dict_of_lists(
        getenv_branch(branch_vars, branch, "NEW_PATH_PREPENDS", EmptyDict),
        getenv_branch(branch_vars, branch, "NEW_PATH_POSTPENDS", EmptyDict))[path_var]

\* unuse.py unuse_paths, one path variable: the paths to remove
env_paths_to_remove(branches, branch_vars, branch, path_var) ==
    LET new_paths ==
            merge_dict_of_lists(
                getenv_branch(branch_vars, branch, "NEW_PATH_PREPENDS", EmptyDict),
                getenv_branch(branch_vars, branch, "NEW_PATH_POSTPENDS", EmptyDict))
        original_paths ==
            getenv_branch(branch_vars, branch, "ORIGINAL_PATH_VARS", EmptyDict)
        subsequent_paths ==
            subsequent_merge(branch_vars, get_subsequent_use_packages(branches, branch),
                             <<"NEW_PATH_PREPENDS", "NEW_PATH_POSTPENDS">>)
        original_path_values ==
            IF Has(original_paths, path_var) THEN original_paths[path_var] ELSE <<>>
        subsequent_path_values ==
            IF Has(subsequent_paths, path_var) THEN subsequent_paths[path_var] ELSE <<>>
        NotSubsequent(path) == ~InList(path, subsequent_path_values)
        NotOriginal(path) == ~InList(path, original_path_values)
    IN  SelectSeq(SelectSeq(new_paths[path_var], NotSubsequent), NotOriginal)

\* unuse.py unuse_paths
env_unuse_paths(environ, branches, branch_vars, branch) ==
    LET path_vars ==
            Keys(merge_dict_of_lists(
                     getenv_branch(branch_vars, branch, "NEW_PATH_PREPENDS", EmptyDict),
                     getenv_branch(branch_vars, branch, "NEW_PATH_POSTPENDS", EmptyDict)))
    IN  Concat([i \in 1..Len(path_vars) |->
                   remove_paths_from_path_var(
                       environ, path_vars[i],
                       env_paths_to_remove(branches, branch_vars, branch, path_vars[i]))])

\* format_existing_aliases_into_dict: split("=")[0].split(" ")[1] is the
\* name and split("=")[1].strip("\n").strip("'") the value
RECURSIVE format_existing_aliases_into_dict(_)
format_existing_aliases_into_dict(raw_aliases) ==
    IF Len(raw_aliases) = 0 THEN EmptyDict
    ELSE LET n == Len(raw_aliases)
             alias == raw_aliases[n]
             alias_name == SplitOn(alias, "=")[1][2]
             value == Strip(Strip(SplitOn(alias, "=")[2], "\n"), "'")
         IN  Put(format_existing_aliases_into_dict(SubSeq(raw_aliases, 1, n - 1)),
                 alias_name, value)

\* unuse.py unuse_aliases, one alias of the branch
env_unuse_alias(branches, branch_vars, branch, current_aliases, alias_name) ==
    LET new_aliases == getenv_branch(branch_vars, branch, "NEW_ALIASES", EmptyDict)
        original_aliases ==
            getenv_branch(branch_vars, branch, "ORIGINAL_ALIASES", EmptyDict)
        subsequent_aliases ==
            subsequent_merge(branch_vars, get_subsequent_use_packages(branches, branch),
                             <<"NEW_ALIASES">>)
    IN  IF ~Has(current_aliases, alias_name) THEN <<>>
        ELSE IF current_aliases[alias_name] # new_aliases[alias_name] THEN <<>>
        ELSE IF Has(subsequent_aliases, alias_name) THEN <<>>
        ELSE IF Has(original_aliases, alias_name)
        THEN <<Dir("alias", alias_name, original_aliases[alias_name])>>
        ELSE <<Dir("unalias", alias_name, <<>>)>>

\* unuse.py unuse_aliases
env_unuse_aliases(branches, branch_vars, branch, raw_aliases) ==
    LET current_aliases == format_existing_aliases_into_dict(raw_aliases)
        keys == Keys(getenv_branch(branch_vars, branch, "NEW_ALIASES", EmptyDict))
    IN  Concat([i \in 1..Len(keys) |->
                   env_unuse_alias(branches, branch_vars, branch, current_aliases,
                                   keys[i])])

\* an undo that unsets every variable of the shell
env_unuse_env_vars_live(environ, branches, branch_vars, branch) ==
    [i \in 1..Len(Keys(environ)) |-> Dir("unset", Keys(environ)[i], <<>>)]

\* unuse.py unuse_env_vars: the loop ends ("return") at the first variable
\* that is missing, changed, or set by a subsequent branch
env_unuse_env_vars(environ, branches, branch_vars, branch) ==
    LET new_vars == getenv_branch(branch_vars, branch, "NEW_ENV_VARS", EmptyDict)
        original_vars ==
            getenv_branch(branch_vars, branch, "ORIGINAL_ENV_VARS", EmptyDict)
        subsequent_vars ==
            subsequent_merge(branch_vars, get_subsequent_use_packages(branches, branch),
                             <<"NEW_ENV_VARS">>)
        keys == Keys(new_vars)
        RECURSIVE Loop(_)
        Loop(i) ==
            IF i > Len(keys) THEN <<>>
            ELSE LET env_var_name == keys[i]
                 IN  IF ~Has(environ, env_var_name) THEN <<>>
                     ELSE IF environ[env_var_name] # new_vars[env_var_name] THEN <<>>
                     ELSE IF Has(subsequent_vars, env_var_name) THEN <<>>
                     ELSE (IF Has(original_vars, env_var_name)
                           THEN <<Dir("export", env_var_name,
                                      original_vars[env_var_name])>>
                           ELSE <<Dir("unset", env_var_name, <<>>)>>)
                          \o Loop(i + 1)
    IN  Loop(1)

\* run_unuse_cmds
run_unuse_cmds(branch_vars, branch) ==
    format_cmds_for_shell(getenv_branch(branch_vars, branch, "UNUSE_SHELL_CMDS", <<>>))

\* ast.literal_eval(os.getenv("USE_<BRANCH>_<FIELD>")) raises: the text of
\* the variable is not a Python literal
env_unparsable(branch_vars, branch, field) ==
    /\ Has(branch_vars, Upper(branch))
    /\ field \in branch_vars[Upper(branch)].DAMAGED

\* unuse.py unuse_aliases raises before it prints: it parses NEW_ALIASES of
\* the branch and of every subsequent branch first
env_unuse_aliases_raises(branches, branch_vars, branch) ==
    LET subsequent_branches == get_subsequent_use_packages(branches, branch)
    IN  \/ env_unparsable(branch_vars, branch, "NEW_ALIASES")
        \/ \E i \in 1..Len(subsequent_branches) :
               env_unparsable(branch_vars, subsequent_branches[i].branch,
                              "NEW_ALIASES")

\* the call of unuse.py unuse ends with an exception
env_unuse_raises(branches, branch_vars, branch_name) ==
    /\ \E i \in 1..Len(branches) : branches[i].branch = branch_name
    /\ env_unuse_aliases_raises(branches, branch_vars, branch_name)

\* a deactivation that rewrites USE_BRANCHES before it undoes anything
env_unuse_ledger_first(environ, branches, branch_vars, branch_name, raw_aliases) ==
    LET NotThis(use_branch) == use_branch.branch # branch_name
    IN  IF ~\E i \in 1..Len(branches) : branches[i].branch = branch_name
        THEN <<>>
        ELSE export_shell_command(
                 <<DirExportBranches(SelectSeq(branches, NotThis))>>
                 \o env_unuse_paths(environ, branches, branch_vars, branch_name)
                 \o <<DirUnsetBranchVars(Upper(branch_name))>>)

\* unuse.py unuse: nothing for a branch that is not in USE_BRANCHES; what
\* unuse_paths printed when unuse_aliases raises
env_unuse(environ, branches, branch_vars, branch_name, raw_aliases) ==
    LET NotThis(use_branch) == use_branch.branch # branch_name
    IN  IF ~\E i \in 1..Len(branches) : branches[i].branch = branch_name
        THEN <<>>
        ELSE IF env_unuse_aliases_raises(branches, branch_vars, branch_name)
        THEN export_shell_command(
                 env_unuse_paths(environ, branches, branch_vars, branch_name))
        ELSE export_shell_command(
                 env_unuse_paths(environ, branches, branch_vars, branch_name)
                 \o env_unuse_aliases(branches, branch_vars, branch_name, raw_aliases)
                 \o env_unuse_env_vars(environ, branches, branch_vars, branch_name)
                 \o run_unuse_cmds(branch_vars, branch_name)
                 \o <<DirUnsetBranchVars(Upper(branch_name))>>
                 \o <<DirExportBranches(SelectSeq(branches, NotThis))>>)

(***************************************************************************)
(* The activation side of the environment-variable ledger: use.use(        *)
(* shell_obj, pkg, stdin, settings) and use.get_branch_from_use_pkg_name,  *)
(* which src/usemain.py calls.  They are not in the sources; they follow   *)
(* the Activation Planner of the specification (section 4.2) and write the *)
(* variables src/unuse.py reads: all nine USE_<BRANCH>_* variables of the  *)
(* branch, and the entry of the branch at the end of USE_BRANCHES.  The    *)
(* pre-activation value of a path variable is stored as its list of        *)
(* entries.  The variables are exported parsable (DAMAGED is the set of    *)
(* the fields of the branch whose text no longer is), and an exception of  *)
(* the unwinding unuse ends the process.                                   *)
(***************************************************************************)
get_branch_from_use_pkg_name(pkg_name) == ReadUsePkg(pkg_name).branch

\* the directive that exports the nine variables of a branch
DirExportBranchVars(key, fields) ==
    [k |-> "export_branch_vars", n |-> key, v |-> <<>>, b |-> <<fields>>]

\* the entries of a live path variable (none when it is missing or empty)
live_entries(environ, path_var) ==
    IF ~Has(environ, path_var) \/ environ[path_var] = <<>> THEN <<>>
    ELSE SplitOn(environ[path_var], ":")

\* section 4.2, step 3: prepend list + remaining live entries + postpend list
merged_path_value(prepends, postpends, live) ==
    LET NotListed(entry) == ~InList(entry, prepends) /\ ~InList(entry, postpends)
        NotPrepended(entry) == ~InList(entry, prepends)
    IN  prepends \o SelectSeq(live, NotListed) \o SelectSeq(postpends, NotPrepended)

\* section 4.2: the directives of an activation
env_activation(pkg, unwound) ==
    LET path_vars == Keys(merge_dict_of_lists(pkg.prepends, pkg.postpends))
        ListOf(d, k) == IF Has(d, k) THEN d[k] ELSE <<>>
        fields ==
            [NEW_ALIASES |-> pkg.alias,
             ORIGINAL_ALIASES |->
                 [a \in (DOMAIN pkg.alias) \cap (DOMAIN unwound.al) |-> unwound.al[a]],
             NEW_ENV_VARS |-> pkg.env,
             ORIGINAL_ENV_VARS |->
                 [v \in (DOMAIN pkg.env) \cap (DOMAIN unwound.ev) |-> unwound.ev[v]],
             NEW_PATH_PREPENDS |-> pkg.prepends,
             NEW_PATH_POSTPENDS |-> pkg.postpends,
             ORIGINAL_PATH_VARS |->
                 [v \in {x \in DOMAIN merge_dict_of_lists(pkg.prepends, pkg.postpends) :
                            Has(unwound.ev, x)} |->
                     SplitOn(unwound.ev[v], ":")],
             USE_SHELL_CMDS |-> pkg.use_cmds,
             UNUSE_SHELL_CMDS |-> pkg.unuse_cmds,
             DAMAGED |-> {}]
    IN  export_shell_command(
        format_aliases_for_shell(pkg.alias, get_built_in_vars(pkg.file))
        \o [i \in 1..Len(Keys(pkg.env)) |->
               Dir("export", Keys(pkg.env)[i], pkg.env[Keys(pkg.env)[i]])]
        \o [i \in 1..Len(path_vars) |->
               Dir("export", path_vars[i],
                   JoinWith(merged_path_value(ListOf(pkg.prepends, path_vars[i]),
                                              ListOf(pkg.postpends, path_vars[i]),
                                              live_entries(unwound.ev, path_vars[i])),
                            ":"))]
        \o <<DirExportBranchVars(Upper(pkg.branch), fields)>>
        \o <<DirExportBranches(
                 Append(unwound.ub,
                        [branch |-> pkg.branch, name |-> pkg.name, path |-> pkg.file]))>>
        \o format_cmds_for_shell(pkg.use_cmds))

\* the activation after the directives unwind of the branch's earlier
\* activation: they are printed first, and they are all that is printed when
\* the unwinding raised
env_use_unwound(pkg, sh, unwind) ==
    IF env_unuse_raises(sh.ub, sh.bv, pkg.branch) THEN unwind
    ELSE unwind \o env_activation(pkg, EvalAll(sh, unwind))

\* usemain.py <shell> use <pkg>
env_use(pkg_name, sh, raw_aliases) ==
    env_use_unwound(ReadUsePkg(pkg_name), sh,
                    env_unuse(sh.ev, sh.ub, sh.bv, ReadUsePkg(pkg_name).branch,
                              raw_aliases))

(***************************************************************************)
(* The state machine.  A session starts from some shell state with an      *)
(* empty ledger; every call runs to completion and the shell evaluates     *)
(* what it printed; between calls the user may change the shell by hand.   *)
(***************************************************************************)
\* the state a call or a hand edit starts from
Snap == [al |-> aliases, ev |-> env, ub |-> useBranches, bv |-> branchVars,
         hist |-> hist, child |-> child]

\* no second session: USE_PKG_HISTORY_FILE names no file in it
NoChild == [file |-> "None", al |-> EmptyDict, ev |-> EmptyDict, hist |-> <<>>]

\* the shell states a session may start from
InitShells ==
    { [al |-> EmptyDict, ev |-> EmptyDict],
      [al |-> [ll |-> V_b], ev |-> [E |-> V_0, P |-> P_u]],
      [al |-> EmptyDict, ev |-> [E |-> V_empty, P |-> P_ab]] }

InitCommon ==
    /\ \E sh \in InitShells : aliases = sh.al /\ env = sh.ev
    /\ hist = <<>>
    /\ useBranches = <<>>
    /\ branchVars = EmptyDict
    /\ now = 0
    /\ child = NoChild
    /\ trace = <<>>

\* every call and hand edit is appended to the trace
Logged(op, arg, ds) ==
    trace' = Append(trace, [op |-> op, arg |-> arg, pre |-> Snap, out |-> ds])

\* the session may go on
CanCall == Len(trace) < (IF mode = "env" THEN MaxEnvCalls ELSE MaxCalls)

\* the clock of the calls: time.time() when the next call runs
Times == {t \in {now, now + 1} : t <= MaxTime}

\* the iteration orders of set(path_vars) for package p: one order for a
\* set of at most one variable, both orders for two
SetOrders(p) ==
    IF Cardinality(DOMAIN merge_dict_of_lists(ReadUsePkg(p).prepends,
                                              ReadUsePkg(p).postpends)) > 1
    THEN BOOLEAN
    ELSE {FALSE}

\* the shell after eval of the output r.out of a run on the history file,
\* which left the file as r.hist
HistEvalInto(op, p, r, sh) ==
    /\ aliases' = sh.al
    /\ env' = sh.ev
    /\ hist' = r.hist
    /\ Logged(op, p, r.out)

\* eval "$(use.py <op> <pkg>)" in the session
HistEval(op, p, r) == HistEvalInto(op, p, r, EvalAll(Shell, r.out))

\* eval of the output of "use.py use <pkg>"
HistUse(p) ==
    /\ mode = "file"
    /\ CanCall
    /\ \E t \in Times, reversed \in SetOrders(p) :
          /\ HistEval("use", p,
                      hist_use(p, RawAliases(aliases), env, hist, t, reversed))
          /\ now' = t
    /\ UNCHANGED <<mode, child, useBranches, branchVars>>

\* eval of the output of "use.py unuse <pkg>"
HistUnuse(p) ==
    /\ mode = "file"
    /\ CanCall
    /\ HistEval("unuse", p, hist_unuse(p, RawAliases(aliases), env, hist))
    /\ UNCHANGED <<mode, child, useBranches, branchVars, now>>

\* the shell after eval of the directives ds of a run on the USE_* variables
EnvEvalInto(op, p, ds, sh) ==
    /\ aliases' = sh.al
    /\ env' = sh.ev
    /\ useBranches' = sh.ub
    /\ branchVars' = sh.bv
    /\ Logged(op, p, ds)

\* eval "$(usemain.py <shell> <op> <pkg>)" in the session
EnvEval(op, p, ds) == EnvEvalInto(op, p, ds, EvalAll(Shell, ds))

\* eval of the output of "usemain.py <shell> use <pkg>"
EnvUse(p) ==
    /\ mode = "env"
    /\ CanCall
    /\ EnvEval("use", p, env_use(p, Shell, RawAliases(aliases)))
    /\ UNCHANGED <<mode, child, hist, now>>

\* eval of the output of "usemain.py <shell> unuse <pkg>"
EnvUnuse(p) ==
    /\ mode = "env"
    /\ CanCall
    /\ EnvEval("unuse", p,
               env_unuse(env, useBranches, branchVars,
                         get_branch_from_use_pkg_name(p), RawAliases(aliases)))
    /\ UNCHANGED <<mode, child, hist, now>>

\* the values the user types
HandAliasValues == {V_b, V_aEqb}
HandEnvValues == {V_0}

\* the hand edits of the session so far
Hands == Cardinality({i \in 1..Len(trace) : trace[i].op = "hand"})

\* the user sets or removes an alias or a variable by hand
HandAlias(n, v) ==
    /\ CanCall
    /\ Hands < MaxHand
    /\ aliases' = Put(aliases, n, v)
    /\ Logged("hand", n, <<>>)
    /\ UNCHANGED <<mode, child, env, hist, useBranches, branchVars, now>>

HandUnalias(n) ==
    /\ CanCall
    /\ Hands < MaxHand
    /\ Has(aliases, n)
    /\ aliases' = Del(aliases, n)
    /\ Logged("hand", n, <<>>)
    /\ UNCHANGED <<mode, child, env, hist, useBranches, branchVars, now>>

HandExport(n, v) ==
    /\ CanCall
    /\ Hands < MaxHand
    /\ env' = Put(env, n, v)
    /\ Logged("hand", n, <<>>)
    /\ UNCHANGED <<mode, child, aliases, hist, useBranches, branchVars, now>>

HandUnset(n) ==
    /\ CanCall
    /\ Hands < MaxHand
    /\ Has(env, n)
    /\ env' = Del(env, n)
    /\ Logged("hand", n, <<>>)
    /\ UNCHANGED <<mode, child, aliases, hist, useBranches, branchVars, now>>

\* the stored new_aliases of a branch is overwritten with text that is not a
\* Python literal: the section of the history file, or USE_<BRANCH>_NEW_ALIASES
HandDamage(branch) ==
    /\ CanCall
    /\ Hands < MaxHand
    /\ IF mode = "file"
       THEN /\ has_section(hist, branch)
            /\ hist' = [i \in 1..Len(hist) |->
                           IF hist[i].branch = branch
                           THEN [hist[i] EXCEPT !.damaged = @ \cup {"new_aliases"}]
                           ELSE hist[i]]
            /\ UNCHANGED branchVars
       ELSE /\ Has(branchVars, Upper(branch))
            /\ branchVars' = [branchVars EXCEPT ![Upper(branch)].DAMAGED =
                                                    @ \cup {"NEW_ALIASES"}]
            /\ UNCHANGED hist
    /\ Logged("hand", branch, <<>>)
    /\ UNCHANGED <<mode, child, aliases, env, useBranches, now>>

\* the user types export n=$n:entry
HandAppendPath(n, entry) ==
    /\ CanCall
    /\ Hands < MaxHand
    /\ Has(env, n)
    /\ env' = Put(env, n, env[n] \o <<":">> \o entry)
    /\ Logged("hand", n, <<>>)
    /\ UNCHANGED <<mode, child, aliases, hist, useBranches, branchVars, now>>

Hand ==
    \/ \E branch \in {"X", "Y"} : HandDamage(branch)
    \/ \E v \in HandAliasValues : HandAlias("ll", v)
    \/ HandAlias("la", V_b)
    \/ HandUnalias("ll")
    \/ \E v \in HandEnvValues : HandExport("E", v)
    \/ HandUnset("E")

\* setup: the file USE_PKG_HISTORY_FILE already names, or else a new
\* temporary file ("f1" is the file of the first session, "f2" a new one)
setup(use_history_file) ==
    IF use_history_file # "None" THEN use_history_file ELSE "f2"

\* the history file the second session reads and writes
ChildHist == IF child.file = "f1" THEN hist ELSE child.hist

\* a second session starts and runs setup: a shell started from the first
\* session inherits its exported variables, USE_PKG_HISTORY_FILE included
\* (aliases are not inherited); a new login shell inherits nothing
StartSession(inherits) ==
    /\ mode = "file"
    /\ CanCall
    /\ child.file = "None"
    /\ child' = [file |-> setup(IF inherits THEN "f1" ELSE "None"),
                 al |-> EmptyDict,
                 ev |-> IF inherits THEN env ELSE EmptyDict,
                 hist |-> <<>>]
    /\ Logged("start", IF inherits THEN "child" ELSE "login", <<>>)
    /\ UNCHANGED <<mode, aliases, env, hist, useBranches, branchVars, now>>

\* the second session after eval of the output r.out of a run on its
\* history file, which left the file as r.hist
ChildEvalInto(op, p, r, sh) ==
    /\ hist' = IF child.file = "f1" THEN r.hist ELSE hist
    /\ child' = [file |-> child.file, al |-> sh.al, ev |-> sh.ev,
                 hist |-> IF child.file = "f1" THEN child.hist ELSE r.hist]
    /\ Logged(op, p, r.out)

\* eval "$(use.py <op> <pkg>)" in the second session
ChildEval(op, p, r) ==
    ChildEvalInto(op, p, r,
                  EvalAll([al |-> child.al, ev |-> child.ev,
                           ub |-> <<>>, bv |-> EmptyDict], r.out))

\* eval of the output of "use.py use <pkg>" in the second session
ChildUse(p) ==
    /\ mode = "file"
    /\ CanCall
    /\ child.file # "None"
    /\ \E t \in Times, reversed \in SetOrders(p) :
          /\ ChildEval("use2", p,
                       hist_use(p, RawAliases(child.al), child.ev, ChildHist, t,
                                reversed))
          /\ now' = t
    /\ UNCHANGED <<mode, aliases, env, useBranches, branchVars>>

\* eval of the output of "use.py unuse <pkg>" in the second session
ChildUnuse(p) ==
    /\ mode = "file"
    /\ CanCall
    /\ child.file # "None"
    /\ ChildEval("unuse2", p,
                 hist_unuse(p, RawAliases(child.al), child.ev, ChildHist))
    /\ UNCHANGED <<mode, aliases, env, useBranches, branchVars, now>>

\* the packages of the sessions that run side by side
SessionPkgNames == {"pA", "pB"}

InitHist == mode = "file" /\ InitCommon
InitEnv == mode = "env" /\ InitCommon
Init == mode \in {"file", "env"} /\ InitCommon

NextHist ==
    \/ \E p \in PkgNames : HistUse(p)
    \/ \E p \in PkgNames : HistUnuse(p)
    \/ Hand

NextEnv ==
    \/ \E p \in EnvPkgNames : EnvUse(p)
    \/ \E p \in EnvPkgNames : EnvUnuse(p)
    \/ Hand

Next ==
    \/ \E p \in PkgNames : HistUse(p)
    \/ \E p \in PkgNames : HistUnuse(p)
    \/ \E p \in EnvPkgNames : EnvUse(p)
    \/ \E p \in EnvPkgNames : EnvUnuse(p)
    \/ Hand

NextSessions ==
    \/ \E p \in SessionPkgNames : HistUse(p)
    \/ \E p \in SessionPkgNames : HistUnuse(p)
    \/ \E inherits \in BOOLEAN : StartSession(inherits)
    \/ \E p \in SessionPkgNames : ChildUse(p)
    \/ \E p \in SessionPkgNames : ChildUnuse(p)

NextOrder ==
    \/ \E p \in OrderPkgNames : EnvUse(p)
    \/ \E p \in OrderPkgNames : EnvUnuse(p)

NextDet ==
    \/ \E p \in DetPkgNames : HistUse(p)
    \/ \E p \in DetPkgNames : HistUnuse(p)

\* sessions on the USE_* variables in which the user sets E back by hand
NextLater ==
    \/ \E p \in LaterPkgNames : EnvUse(p)
    \/ \E p \in LaterPkgNames : EnvUnuse(p)
    \/ HandExport("E", V_1)
    \/ HandUnset("E")

\* sessions on the USE_* variables with branches X, x and W
NextCase ==
    \/ \E p \in CasePkgNames : EnvUse(p)
    \/ \E p \in CasePkgNames : EnvUnuse(p)

\* sessions of either ledger on the path variables, in which the user
\* appends an entry to P or sets Q by hand
NextPaths ==
    \/ \E p \in PathPkgNames : HistUse(p)
    \/ \E p \in PathPkgNames : HistUnuse(p)
    \/ \E p \in PathPkgNames : EnvUse(p)
    \/ \E p \in PathPkgNames : EnvUnuse(p)
    \/ HandAppendPath("P", P_a)
    \/ HandExport("Q", P_c)

\* the built-in variables as a dictionary in any insertion order
BuiltInDicts ==
    {[i \in 1..4 |-> get_built_in_vars("")[f[i]]] :
        f \in {g \in [1..4 -> 1..4] : \A i, j \in 1..4 : g[i] = g[j] => i = j}}

\* a command line as its parts: 1..4 a placeholder of that built-in variable
\* of get_built_in_vars, 0 a ":" ; of at most MaxParts parts
CmdParts == UNION {[1..n -> 0..4] : n \in 1..MaxParts}

\* the text of a command line: "$" and the key for a placeholder
RECURSIVE cmd_text(_)
cmd_text(parts) ==
    IF Len(parts) = 0 THEN <<>>
    ELSE (IF parts[1] = 0 THEN <<":">>
          ELSE <<"$">> \o get_built_in_vars("")[parts[1]].key)
         \o cmd_text(Tail(parts))

\* use: format_cmds_for_shell(cmds, variables) on one command of a package
FormatCmd(variables, parts) ==
    /\ Len(trace) < MaxFormats
    /\ Logged("format", [variables |-> variables, parts |-> parts],
              <<Dir("cmd", "", format_cmd_for_shell(cmd_text(parts), variables))>>)
    /\ UNCHANGED <<mode, child, aliases, env, hist, useBranches, branchVars, now>>

NextSubst == \E variables \in BuiltInDicts, parts \in CmdParts : FormatCmd(variables, parts)

SpecSubst == InitHist /\ [][NextSubst]_vars
SpecHist == InitHist /\ [][NextHist]_vars
SpecCase == InitEnv /\ [][NextCase]_vars
SpecDet == InitHist /\ [][NextDet]_vars
SpecLater == InitEnv /\ [][NextLater]_vars
SpecPaths == Init /\ [][NextPaths]_vars
SpecOrder == InitEnv /\ [][NextOrder]_vars
SpecSessions == InitHist /\ [][NextSessions]_vars
SpecEnv == InitEnv /\ [][NextEnv]_vars
Spec == Init /\ [][Next]_vars

(***************************************************************************)
(* Reading the trace.                                                      *)
(***************************************************************************)
\* the state the i-th call or hand edit left behind
Post(i) == IF i < Len(trace) THEN trace[i + 1].pre ELSE Snap

\* the live shell of a snapshot
ShellOf(s) == [al |-> s.al, ev |-> s.ev, ub |-> s.ub, bv |-> s.bv]

\* entry n of table d1 is what it was in d0: the same value, or missing as before
Restored(d0, d1, n) ==
    IF Has(d0, n) THEN Has(d1, n) /\ d1[n] = d0[n] ELSE ~Has(d1, n)

\* no directive of ds names n
NoDirectiveFor(ds, n) == \A j \in 1..Len(ds) : ds[j].n # n

\* the aliases / variables the record of package p holds as set by its activation
RecordedAliases(s, p) ==
    IF mode = "file"
    THEN (IF hist_find_branch(s.hist, p) = "None" THEN EmptyDict
          ELSE section_of(s.hist, hist_find_branch(s.hist, p)).new_aliases)
    ELSE getenv_branch(s.bv, get_branch_from_use_pkg_name(p), "NEW_ALIASES", EmptyDict)

RecordedEnvVars(s, p) ==
    IF mode = "file"
    THEN (IF hist_find_branch(s.hist, p) = "None" THEN EmptyDict
          ELSE section_of(s.hist, hist_find_branch(s.hist, p)).new_env_vars)
    ELSE getenv_branch(s.bv, get_branch_from_use_pkg_name(p), "NEW_ENV_VARS", EmptyDict)

\* the variables a package names: its environment and path variables
VarsOf(pkg) == (DOMAIN pkg.env) \cup (DOMAIN pkg.prepends) \cup (DOMAIN pkg.postpends)

(***************************************************************************)
(* The claims.                                                             *)
(***************************************************************************)
\* C1: use.use(pkg) followed immediately by use.unuse(pkg), on a ledger that
\* was empty, leaves every alias, environment variable and path variable the
\* package names with the value it had before the use, or absent if it was
\* absent before.
C1_UseUnuseRestores ==
    \A i \in 1..(Len(trace) - 1) :
        (/\ mode = "file"
         /\ trace[i].op = "use" /\ trace[i + 1].op = "unuse"
         /\ trace[i + 1].arg = trace[i].arg
         /\ trace[i].pre.hist = <<>>)
        => LET pkg == ReadUsePkg(trace[i].arg)
           IN  /\ \A n \in DOMAIN pkg.alias :
                      Restored(trace[i].pre.al, Post(i + 1).al, n)
               /\ \A n \in VarsOf(pkg) :
                      Restored(trace[i].pre.ev, Post(i + 1).ev, n)

\* C2: when an alias or environment variable that an activation set was
\* changed by hand to another value, or removed by hand, the deactivation of
\* that package prints no directive for it and its live value stays as it is.
C2_HandChangedLeftAlone ==
    \A i \in 1..(Len(trace) - 1) :
        (trace[i].op = "hand" /\ trace[i + 1].op = "unuse")
        => LET s == trace[i + 1].pre
               n == trace[i].arg
               set_aliases == RecordedAliases(s, trace[i + 1].arg)
               set_vars == RecordedEnvVars(s, trace[i + 1].arg)
           IN  /\ (Has(set_aliases, n) /\ (~Has(s.al, n) \/ s.al[n] # set_aliases[n]))
                  => /\ NoDirectiveFor(trace[i + 1].out, n)
                     /\ Restored(s.al, Post(i + 1).al, n)
               /\ (Has(set_vars, n) /\ (~Has(s.ev, n) \/ s.ev[n] # set_vars[n]))
                  => /\ NoDirectiveFor(trace[i + 1].out, n)
                     /\ Restored(s.ev, Post(i + 1).ev, n)

\* C3: on the USE_* variables, when package b is activated while another
\* branch is active that set the same alias to the same value, then un-using
\* the earlier branch prints nothing for that alias and leaves it as it is,
\* and un-using b right after leaves the alias with the value b recorded as
\* its pre-activation value, or without the alias if b recorded none.
C3_SameAliasUnwind ==
    \A i \in 1..(Len(trace) - 2) :
        (/\ mode = "env"
         /\ trace[i].op = "use"
         /\ trace[i + 1].op = "unuse" /\ trace[i + 2].op = "unuse"
         /\ trace[i + 2].arg = trace[i].arg)
        => LET brA == get_branch_from_use_pkg_name(trace[i + 1].arg)
               brB == get_branch_from_use_pkg_name(trace[i].arg)
               setA == getenv_branch(trace[i].pre.bv, brA, "NEW_ALIASES", EmptyDict)
               setB == ReadUsePkg(trace[i].arg).alias
               origB == getenv_branch(trace[i + 1].pre.bv, brB, "ORIGINAL_ALIASES",
                                      EmptyDict)
           IN  (/\ brA # brB
                /\ \E k \in 1..Len(trace[i].pre.ub) : trace[i].pre.ub[k].branch = brA)
               => \A n \in (DOMAIN setA) \cap (DOMAIN setB) :
                      setA[n] = setB[n]
                      => /\ NoDirectiveFor(trace[i + 1].out, n)
                         /\ Restored(trace[i + 1].pre.al, Post(i + 1).al, n)
                         /\ Restored(origB, Post(i + 2).al, n)

\* the entries of a path variable of a snapshot
EntriesOf(s, path_var) ==
    IF Has(s.ev, path_var) THEN SplitOn(s.ev[path_var], ":") ELSE <<>>

\* the entries of a list other than entry
Without(entries, entry) ==
    LET Other(e) == e # entry IN SelectSeq(entries, Other)

\* C4: on the USE_* variables, when two active branches each prepended one
\* entry, different from the other's, to the same path variable, and neither
\* entry was in the variable before, un-using the branch activated first
\* removes exactly its entry: the other branch's entry and the remaining
\* entries stay, in the order they had.
C4_FirstBranchPathRemoved ==
    \A i \in 1..Len(trace) :
        (mode = "env" /\ trace[i].op = "unuse")
        => LET s == trace[i].pre
               brA == get_branch_from_use_pkg_name(trace[i].arg)
               preA == getenv_branch(s.bv, brA, "NEW_PATH_PREPENDS", EmptyDict)
               origA == getenv_branch(s.bv, brA, "ORIGINAL_PATH_VARS", EmptyDict)
           IN  \A k \in 1..Len(s.ub), m \in 1..Len(s.ub) :
                   (k < m /\ s.ub[k].branch = brA /\ Len(s.ub) = 2)
                   => LET brB == s.ub[m].branch
                          preB == getenv_branch(s.bv, brB, "NEW_PATH_PREPENDS",
                                                EmptyDict)
                          origB == getenv_branch(s.bv, brB, "ORIGINAL_PATH_VARS",
                                                 EmptyDict)
                      IN  \A v \in (DOMAIN preA) \cap (DOMAIN preB) :
                              (/\ Len(preA[v]) = 1 /\ Len(preB[v]) = 1
                               /\ preA[v][1] # preB[v][1]
                               /\ ~(Has(origA, v) /\ InList(preA[v][1], origA[v]))
                               /\ ~(Has(origB, v) /\ InList(preB[v][1], origB[v])))
                              => /\ InList(preB[v][1], EntriesOf(s, v))
                                    => InList(preB[v][1], EntriesOf(Post(i), v))
                                 /\ EntriesOf(Post(i), v)
                                        = Without(EntriesOf(s, v), preA[v][1])
                                 /\ InList(preA[v][1], EntriesOf(s, v))
                                    => EntriesOf(Post(i), v) # EntriesOf(s, v)

\* C4 happens: pA then pB are active, pA is un-used and P keeps /b in front
C4_Witness ==
    /\ mode = "env"
    /\ Len(trace) = 3
    /\ trace[1].op = "use" /\ trace[1].arg = "pA"
    /\ trace[2].op = "use" /\ trace[2].arg = "pB"
    /\ trace[3].op = "unuse" /\ trace[3].arg = "pA"
    /\ trace[1].pre.ev = [E |-> V_0, P |-> P_u]
    /\ env["P"] = P_b \o <<":">> \o P_u

\* C5: on the history file, with a path variable that holds neither package's
\* entry, use a (prepends one entry), use b on another branch (prepends
\* another entry), unuse a leaves b's entry in front of the old value, and
\* unuse b then leaves the old value: PATH=/usr/bin, use A, use B, unuse A
\* gives /opt/B/bin:/usr/bin and unuse B gives /usr/bin.
C5_PathUnuseExample ==
    \A i \in 1..(Len(trace) - 3) :
        (/\ mode = "file"
         /\ trace[i].op = "use" /\ trace[i + 1].op = "use"
         /\ trace[i + 2].op = "unuse" /\ trace[i + 2].arg = trace[i].arg
         /\ trace[i + 3].op = "unuse" /\ trace[i + 3].arg = trace[i + 1].arg
         /\ trace[i].pre.hist = <<>>)
        => LET A == ReadUsePkg(trace[i].arg)
               B == ReadUsePkg(trace[i + 1].arg)
               old == trace[i].pre.ev
           IN  \A v \in (DOMAIN A.prepends) \cap (DOMAIN B.prepends) :
                   (/\ A.branch # B.branch
                    /\ Has(old, v)
                    /\ \A k \in 1..Len(A.prepends[v]) :
                           ~InList(A.prepends[v][k], SplitOn(old[v], ":"))
                    /\ \A k \in 1..Len(B.prepends[v]) :
                           ~InList(B.prepends[v][k], SplitOn(old[v], ":")))
                   => /\ Post(i + 2).ev[v]
                             = JoinWith(B.prepends[v] \o SplitOn(old[v], ":"), ":")
                      /\ Post(i + 3).ev[v] = old[v]

\* C6: the history file holds at most one record per branch in every
\* reachable state, and after a use of a package whose branch was active the
\* file holds exactly one record of that branch.
C6_OneRecordPerBranch ==
    /\ \A i \in 1..Len(hist), j \in 1..Len(hist) :
           hist[i].branch = hist[j].branch => i = j
    /\ \A i \in 1..Len(trace) :
           (/\ mode = "file" /\ trace[i].op = "use"
            /\ has_section(trace[i].pre.hist, ReadUsePkg(trace[i].arg).branch))
           => Cardinality({k \in 1..Len(Post(i).hist) :
                              Post(i).hist[k].branch = ReadUsePkg(trace[i].arg).branch})
                  = 1

\* C6 happens: pA, then pC on the same branch, next to a record of pB
C6_Witness ==
    /\ mode = "file"
    /\ Len(trace) = 3
    /\ trace[1].op = "use" /\ trace[1].arg = "pA"
    /\ trace[2].op = "use" /\ trace[2].arg = "pB"
    /\ trace[3].op = "use" /\ trace[3].arg = "pC"
    /\ Len(hist) = 2
    /\ hist[2].branch = "X" /\ hist[2].use_package = "pC.use"

\* the run the re-activation is compared with: unuse the package of the record,
\* let the shell evaluate what it printed, then use package p
ExplicitReuse(s, p) ==
    LET branch == ReadUsePkg(p).branch
        r1 == hist_unuse(section_of(s.hist, branch).name, RawAliases(s.al), s.ev,
                         s.hist)
        sh1 == EvalAll(ShellOf(s), r1.out)
        r2 == hist_use(p, RawAliases(sh1.al), sh1.ev, r1.hist, 0, FALSE)
    IN  [unwound |-> sh1, final |-> EvalAll(sh1, r2.out)]

\* C7: a use of a package whose branch has a record leaves the aliases and the
\* variables of the shell as the explicit run does: unuse, eval, use.
C7_ReuseIsUnuseThenUse ==
    \A i \in 1..Len(trace) :
        (/\ mode = "file" /\ trace[i].op = "use"
         /\ has_section(trace[i].pre.hist, ReadUsePkg(trace[i].arg).branch))
        => /\ Post(i).al = ExplicitReuse(trace[i].pre, trace[i].arg).final.al
           /\ Post(i).ev = ExplicitReuse(trace[i].pre, trace[i].arg).final.ev

\* C8: the record a re-activating use writes holds, as existing_aliases,
\* existing_env_vars and existing_path_vars, the values of the shell after
\* the previous activation was unwound.
C8_ReuseStoresUnwoundValues ==
    \A i \in 1..Len(trace) :
        (/\ mode = "file" /\ trace[i].op = "use"
         /\ has_section(trace[i].pre.hist, ReadUsePkg(trace[i].arg).branch))
        => LET pkg == ReadUsePkg(trace[i].arg)
               sh1 == ExplicitReuse(trace[i].pre, trace[i].arg).unwound
               rec == section_of(Post(i).hist, pkg.branch)
           IN  /\ rec.existing_aliases
                      = get_matching_aliases(pkg.alias,
                                             format_existing_aliases(RawAliases(sh1.al)))
               /\ rec.existing_env_vars = get_matching_env_vars(pkg.env, sh1.ev)
               /\ rec.existing_path_vars
                      = get_matching_paths(pkg.prepends, pkg.postpends, sh1.ev)

\* C9: on the history file, un-using a package prints no directive for an
\* alias or a variable that is live with the value its record set when a
\* record with a later timestamp set that alias or variable too.
C9_LaterRecordSuppresses ==
    \A i \in 1..Len(trace) :
        (/\ mode = "file" /\ trace[i].op = "unuse"
         /\ hist_find_branch(trace[i].pre.hist, trace[i].arg) # "None")
        => LET s == trace[i].pre
               sec == section_of(s.hist, hist_find_branch(s.hist, trace[i].arg))
               LaterSet(field, n) ==
                   \E k \in 1..Len(s.hist) :
                       /\ s.hist[k].timestamp > sec.timestamp
                       /\ Has(s.hist[k][field], n)
           IN  /\ \A n \in DOMAIN sec.new_aliases :
                      (/\ Has(s.al, n) /\ s.al[n] = sec.new_aliases[n]
                       /\ LaterSet("new_aliases", n))
                      => NoDirectiveFor(trace[i].out, n)
               /\ \A n \in DOMAIN sec.new_env_vars :
                      (/\ Has(s.ev, n) /\ s.ev[n] = sec.new_env_vars[n]
                       /\ LaterSet("new_env_vars", n))
                      => NoDirectiveFor(trace[i].out, n)

\* the package's branch has a record in the ledger of snapshot s
HasRecord(s, p) ==
    IF mode = "file"
    THEN has_section(s.hist, ReadUsePkg(p).branch)
    ELSE \E k \in 1..Len(s.ub) : s.ub[k].branch = get_branch_from_use_pkg_name(p)

\* C10: un-using a package whose branch has no record prints no directive and
\* leaves the ledger as it is, whatever the shell and the other records are.
C10_UnknownBranchNoOp ==
    \A i \in 1..Len(trace) :
        (trace[i].op = "unuse" /\ ~HasRecord(trace[i].pre, trace[i].arg))
        => /\ trace[i].out = <<>>
           /\ Post(i).hist = trace[i].pre.hist
           /\ Post(i).ub = trace[i].pre.ub
           /\ Post(i).bv = trace[i].pre.bv
           /\ Post(i).al = trace[i].pre.al
           /\ Post(i).ev = trace[i].pre.ev

\* C10 happens: pB is un-used while only pA has a record
C10_Witness ==
    /\ Len(trace) = 2
    /\ trace[1].op = "use" /\ trace[1].arg = "pA"
    /\ trace[2].op = "unuse" /\ trace[2].arg = "pB"
    /\ trace[2].out = <<>>
    /\ aliases = [ll |-> V_a, la |-> V_aEqb]
    /\ (mode = "file" => Len(hist) = 1 /\ hist[1].branch = "X")
    /\ (mode = "env" => Len(useBranches) = 1 /\ useBranches[1].branch = "X")

(***************************************************************************)
(* Errors, sessions, timestamps and the stored values.                     *)
(***************************************************************************)
\* C11: a run of unuse commits atomically: either it prints nothing and the
\* ledger keeps the record, or it prints its undo directives and the record
\* of the branch leaves the ledger; a run that stops on a stored field that
\* cannot be parsed is no exception.
C11_UnuseCommitsAtomically ==
    \A i \in 1..Len(trace) :
        (trace[i].op = "unuse" /\ trace[i].out # <<>>)
        => ~HasRecord(Post(i), trace[i].arg)

\* the branch "unuse p" works on in snapshot s ("None": no record)
TargetBranch(s, p) ==
    IF mode = "file" THEN hist_find_branch(s.hist, p)
    ELSE IF \E k \in 1..Len(s.ub) : s.ub[k].branch = get_branch_from_use_pkg_name(p)
    THEN get_branch_from_use_pkg_name(p)
    ELSE "None"

\* branch b has a record in the ledger of snapshot s
BranchActive(s, b) ==
    IF mode = "file" THEN has_section(s.hist, b)
    ELSE \E k \in 1..Len(s.ub) : s.ub[k].branch = b

\* the record of branch b in snapshot s has a field that cannot be parsed
BranchDamaged(s, b) ==
    IF mode = "file" THEN hist_unparsable(s.hist, b, "new_aliases")
    ELSE env_unparsable(s.bv, b, "NEW_ALIASES")

\* C12: a record that cannot be parsed stops the deactivation of its own
\* branch only: the deactivation of any branch whose own record is intact
\* goes through and removes that record, whatever the other records are.
C12_DamageIsLocal ==
    \A i \in 1..Len(trace) :
        LET b == TargetBranch(trace[i].pre, trace[i].arg)
        IN  (/\ trace[i].op = "unuse"
             /\ b # "None"
             /\ ~BranchDamaged(trace[i].pre, b))
            => ~BranchActive(Post(i), b)

\* the ledger the second session reads in snapshot s
LedgerOfChild(s) == IF s.child.file = "f1" THEN s.hist ELSE s.child.hist

\* C13: every shell session has a ledger of its own: a call made in one
\* session leaves the ledger the other session reads as it was, also when
\* the other session is a shell started from a session that had run setup.
C13_SessionsIndependent ==
    \A i \in 1..Len(trace) :
        /\ (trace[i].op \in {"use2", "unuse2"})
           => Post(i).hist = trace[i].pre.hist
        /\ (trace[i].op \in {"use", "unuse"} /\ trace[i].pre.child.file # "None")
           => LedgerOfChild(Post(i)) = LedgerOfChild(trace[i].pre)

\* C14: the timestamps order the records of the history file: two records
\* never carry the same timestamp, and a record written later carries a
\* strictly greater one.
C14_TimestampsStrictlyOrdered ==
    \A i \in 1..Len(hist), j \in 1..Len(hist) :
        i < j => hist[i].timestamp < hist[j].timestamp

\* the value the directives ds assign to name n with keyword k (the last
\* assignment counts); <<"None">> when there is none
AssignedBy(ds, k, n) ==
    LET Sets(d) == d.k = k /\ d.n = n
        hits == SelectSeq(ds, Sets)
    IN  IF Len(hits) = 0 THEN <<"None">> ELSE hits[Len(hits)].v

\* C15: the record written by an activation stores, for every alias and
\* every variable the package sets, the value the printed directive assigns
\* (the value after the built-in variables are replaced).
C15_StoredIsEmitted ==
    \A i \in 1..Len(trace) :
        (/\ mode = "file" /\ trace[i].op = "use"
         /\ has_section(Post(i).hist, ReadUsePkg(trace[i].arg).branch)
         /\ Post(i).hist # trace[i].pre.hist)
        => LET sec == section_of(Post(i).hist, ReadUsePkg(trace[i].arg).branch)
           IN  /\ \A n \in DOMAIN sec.new_aliases :
                      AssignedBy(trace[i].out, "alias", n) = sec.new_aliases[n]
               /\ \A n \in DOMAIN sec.new_env_vars :
                      AssignedBy(trace[i].out, "export", n) = sec.new_env_vars[n]

\* C16: the record written by an activation holds, as pre-activation values,
\* exactly the aliases and the variables the package sets that existed in
\* the live shell when use was called, each with its live value; a variable
\* whose live value is the empty string is one of them.
C16_PreActivationMaps ==
    \A i \in 1..Len(trace) :
        (/\ mode = "file" /\ trace[i].op = "use"
         /\ has_section(Post(i).hist, ReadUsePkg(trace[i].arg).branch)
         /\ Post(i).hist # trace[i].pre.hist)
        => LET pkg == ReadUsePkg(trace[i].arg)
               sec == section_of(Post(i).hist, pkg.branch)
               live == trace[i].pre
           IN  /\ sec.existing_aliases =
                      [n \in (DOMAIN pkg.alias) \cap (DOMAIN live.al) |-> live.al[n]]
               /\ sec.existing_env_vars =
                      [n \in (DOMAIN pkg.env) \cap (DOMAIN live.ev) |-> live.ev[n]]

\* C17: branch A sets an alias or a variable e to v1, a later branch B sets
\* it to another value v2.  Un-using A while B is active prints no directive
\* for e, and un-using B afterwards puts e back to v1, the value B recorded
\* before its activation.
C17_LaterBranchRestoresOwnSnapshot ==
    \A i \in 1..(Len(trace) - 3) :
        (/\ mode = "env"
         /\ trace[i].op = "use" /\ trace[i + 1].op = "use"
         /\ trace[i + 2].op = "unuse" /\ trace[i + 2].arg = trace[i].arg
         /\ trace[i + 3].op = "unuse" /\ trace[i + 3].arg = trace[i + 1].arg
         /\ ReadUsePkg(trace[i].arg).branch # ReadUsePkg(trace[i + 1].arg).branch)
        => LET A == ReadUsePkg(trace[i].arg)
               B == ReadUsePkg(trace[i + 1].arg)
           IN  /\ \A e \in (DOMAIN A.alias) \cap (DOMAIN B.alias) :
                      A.alias[e] # B.alias[e]
                      => /\ NoDirectiveFor(trace[i + 2].out, e)
                         /\ Has(Post(i + 3).al, e)
                         /\ Post(i + 3).al[e] = A.alias[e]
               /\ \A e \in (DOMAIN A.env) \cap (DOMAIN B.env) :
                      A.env[e] # B.env[e]
                      => /\ NoDirectiveFor(trace[i + 2].out, e)
                         /\ Has(Post(i + 3).ev, e)
                         /\ Post(i + 3).ev[e] = A.env[e]

\* the deactivate commands the record of branch b stores in snapshot s
StoredUnuseCmds(s, b) ==
    IF mode = "file" THEN section_of(s.hist, b).unuse_cmds
    ELSE getenv_branch(s.bv, b, "UNUSE_SHELL_CMDS", <<>>)

\* C18: a deactivation that goes through prints every deactivate command
\* the record stores, unchanged and in the stored order, and prints them
\* after all its alias, variable and path directives.
C18_UnuseCmdsVerbatimLast ==
    \A i \in 1..Len(trace) :
        LET b == TargetBranch(trace[i].pre, trace[i].arg)
            out == trace[i].out
            IsCmd(d) == d.k = "cmd"
            cmds == SelectSeq(out, IsCmd)
        IN  (/\ trace[i].op = "unuse"
             /\ b # "None"
             /\ ~BranchActive(Post(i), b))
            => /\ [j \in 1..Len(cmds) |-> cmds[j].v] = StoredUnuseCmds(trace[i].pre, b)
               /\ \A j \in 1..Len(out), k \in 1..Len(out) :
                      (/\ out[j].k = "cmd"
                       /\ out[k].k \in {"alias", "unalias", "export", "unset"})
                      => k < j

\* C19: running use for a package whose branch already has a record, with
\* no unuse in between, is rejected: the call prints no directive and the
\* ledger keeps the record as it was.
C19_SecondUseRejected ==
    \A i \in 1..(Len(trace) - 1) :
        (/\ mode = "file"
         /\ trace[i].op = "use" /\ trace[i + 1].op = "use"
         /\ trace[i + 1].arg = trace[i].arg
         /\ has_section(Post(i).hist, ReadUsePkg(trace[i].arg).branch))
        => /\ trace[i + 1].out = <<>>
           /\ Post(i + 1).hist = Post(i).hist

\* what "use.py use p" can print and leave in the history file when it is
\* run in the present shell on the present history file
UseOutcomes(p) ==
    { hist_use(p, RawAliases(aliases), env, hist, t, reversed) :
          t \in Times, reversed \in SetOrders(p) }

\* C20: activation is deterministic: from one package, one live shell and
\* one ledger, every run of use prints the same directives in the same
\* order and writes the same record.
C20_UseDeterministic ==
    mode = "file" => \A p \in DetPkgNames : Cardinality(UseOutcomes(p)) = 1

(***************************************************************************)
(* The undo of the single entities and of the path variables.              *)
(***************************************************************************)
\* the entries of USE_BRANCHES of snapshot s placed after the entry of branch
LaterEntries(s, branch) ==
    {k \in 1..Len(s.ub) : \E j \in 1..(k - 1) : s.ub[j].branch = branch}

\* C21: on the USE_* variables, when an alias or a variable of the un-used
\* branch is live with the value the branch set, and later branches set it
\* too but each of them to a different value, the unuse restores it: it gets
\* its pre-activation value back, or is removed if it had none.
C21_LaterDifferentValueRestores ==
    \A i \in 1..Len(trace) :
        (/\ mode = "env" /\ trace[i].op = "unuse"
         /\ HasRecord(trace[i].pre, trace[i].arg))
        => LET s == trace[i].pre
               branch == get_branch_from_use_pkg_name(trace[i].arg)
               OnlyDifferent(field, n, value) ==
                   /\ \E k \in LaterEntries(s, branch) :
                          Has(getenv_branch(s.bv, s.ub[k].branch, field, EmptyDict), n)
                   /\ \A k \in LaterEntries(s, branch) :
                          LET set == getenv_branch(s.bv, s.ub[k].branch, field, EmptyDict)
                          IN  Has(set, n) => set[n] # value
               new_aliases == getenv_branch(s.bv, branch, "NEW_ALIASES", EmptyDict)
               new_vars == getenv_branch(s.bv, branch, "NEW_ENV_VARS", EmptyDict)
           IN  /\ \A n \in DOMAIN new_aliases :
                      (/\ Has(s.al, n) /\ s.al[n] = new_aliases[n]
                       /\ OnlyDifferent("NEW_ALIASES", n, new_aliases[n]))
                      => Restored(getenv_branch(s.bv, branch, "ORIGINAL_ALIASES",
                                                EmptyDict),
                                  Post(i).al, n)
               /\ \A n \in DOMAIN new_vars :
                      (/\ Has(s.ev, n) /\ s.ev[n] = new_vars[n]
                       /\ OnlyDifferent("NEW_ENV_VARS", n, new_vars[n]))
                      => Restored(getenv_branch(s.bv, branch, "ORIGINAL_ENV_VARS",
                                                EmptyDict),
                                  Post(i).ev, n)

\* C22: on the USE_* variables, the unuse of a branch decides each variable
\* of the branch on its own: a variable that is live with the value the
\* branch set and that no later branch set gets its directive and is
\* restored (its pre-activation value, or removed if it had none), whatever
\* became of the other variables of the branch.
C22_EachVariableOnItsOwn ==
    \A i \in 1..Len(trace) :
        (/\ mode = "env" /\ trace[i].op = "unuse"
         /\ HasRecord(trace[i].pre, trace[i].arg))
        => LET s == trace[i].pre
               branch == get_branch_from_use_pkg_name(trace[i].arg)
               new_vars == getenv_branch(s.bv, branch, "NEW_ENV_VARS", EmptyDict)
               LaterSet(n) ==
                   \E k \in LaterEntries(s, branch) :
                       Has(getenv_branch(s.bv, s.ub[k].branch, "NEW_ENV_VARS",
                                         EmptyDict), n)
           IN  \A n \in DOMAIN new_vars :
                   (Has(s.ev, n) /\ s.ev[n] = new_vars[n] /\ ~LaterSet(n))
                   => /\ ~NoDirectiveFor(trace[i].out, n)
                      /\ Restored(getenv_branch(s.bv, branch, "ORIGINAL_ENV_VARS",
                                                EmptyDict),
                                  Post(i).ev, n)

\* the branch of the package a call names
BranchOf(p) == ReadUsePkg(p).branch

\* call i activated a branch that had no record, and call j is the first
\* call after it that names that branch again, an unuse of the same package
ActivatedThenUnused(i, j) ==
    /\ i < j
    /\ trace[i].op = "use" /\ trace[j].op = "unuse"
    /\ trace[j].arg = trace[i].arg
    /\ ~HasRecord(trace[i].pre, trace[i].arg)
    /\ HasRecord(trace[j].pre, trace[j].arg)
    /\ \A k \in (i + 1)..(j - 1) :
           trace[k].op \in {"use", "unuse"} => BranchOf(trace[k].arg) # BranchOf(trace[i].arg)

\* the path variables a package lists entries for
PathVarsOf(pkg) == (DOMAIN pkg.prepends) \cup (DOMAIN pkg.postpends)

\* C23: on either ledger, the unuse of a branch never removes from a path
\* variable an entry that was an entry of that variable just before the
\* branch was activated, also when the package lists that entry: such an
\* entry, if it is in the variable when the unuse runs, is in it afterwards.
C23_PreExistingEntryKept ==
    \A i \in 1..Len(trace), j \in 1..Len(trace) :
        ActivatedThenUnused(i, j)
        => \A v \in PathVarsOf(ReadUsePkg(trace[i].arg)) :
               \A n \in 1..Len(EntriesOf(trace[i].pre, v)) :
                   LET entry == EntriesOf(trace[i].pre, v)[n]
                   IN  InList(entry, EntriesOf(trace[j].pre, v))
                       => InList(entry, EntriesOf(Post(j), v))

\* C23 happens: pA put /a in front of P, pE, which lists /a for P too, was
\* activated and un-used, and /a is still in P
C23_Witness ==
    /\ Len(trace) = 3
    /\ trace[1].op = "use" /\ trace[1].arg = "pA"
    /\ trace[2].op = "use" /\ trace[2].arg = "pE"
    /\ trace[3].op = "unuse" /\ trace[3].arg = "pE"
    /\ ~HasRecord(Snap, "pE")
    /\ InList(P_a, EntriesOf(trace[2].pre, "P"))
    /\ InList(P_a, EntriesOf(Snap, "P"))

\* the entries a package's record lists for a path variable
Listed(q, v) ==
    LET pkg == ReadUsePkg(q)
    IN  (IF Has(pkg.prepends, v) THEN pkg.prepends[v] ELSE <<>>)
        \o (IF Has(pkg.postpends, v) THEN pkg.postpends[v] ELSE <<>>)

\* how often an entry is in a list
Count(entries, entry) ==
    LET Same(e) == e = entry IN Len(SelectSeq(entries, Same))

\* call j un-uses the record that call i wrote
UsedThenUnused(i, j) ==
    /\ i < j
    /\ trace[i].op = "use" /\ trace[j].op = "unuse"
    /\ trace[j].arg = trace[i].arg
    /\ HasRecord(trace[j].pre, trace[j].arg)
    /\ \A k \in (i + 1)..(j - 1) :
           trace[k].op \in {"use", "unuse"} => BranchOf(trace[k].arg) # BranchOf(trace[i].arg)

\* package q, of another branch, was activated between calls i and j and its
\* record is still there when call j runs
LaterActive(i, j, q) ==
    /\ BranchOf(q) # BranchOf(trace[i].arg)
    /\ HasRecord(trace[j].pre, q)
    /\ \E k \in (i + 1)..(j - 1) :
           /\ trace[k].op = "use" /\ trace[k].arg = q
           /\ \A m \in (k + 1)..(j - 1) :
                  trace[m].op \in {"use", "unuse"} => BranchOf(trace[m].arg) # BranchOf(q)

\* C24: the unuse of a branch never removes from a path variable an entry
\* that a still active record, activated later, lists for that same variable
\* too. An entry no such record lists for that variable (a later record lists
\* it only for another variable, or only earlier records list it) is not
\* protected: when the branch put it in the variable, whose value before the
\* activation it was no part of, the unuse takes it out.
C24_LaterRecordProtectsSameVariable ==
    \A i \in 1..Len(trace), j \in 1..Len(trace) :
        UsedThenUnused(i, j)
        => \A v \in PathVarsOf(ReadUsePkg(trace[i].arg)) :
            \A n \in 1..Len(Listed(trace[i].arg, v)) :
                LET entry == Listed(trace[i].arg, v)[n]
                    before == EntriesOf(trace[j].pre, v)
                    after == EntriesOf(Post(j), v)
                    protected ==
                        \E q \in PathPkgNames :
                            LaterActive(i, j, q) /\ InList(entry, Listed(q, v))
                IN  /\ (protected /\ InList(entry, before))
                       => InList(entry, after)
                    /\ (ActivatedThenUnused(i, j) /\ ~protected
                        /\ ~(Has(trace[i].pre.ev, v)
                              /\ IsSubstring(entry, trace[i].pre.ev[v]))
                        /\ InList(entry, before))
                       => Count(after, entry) < Count(before, entry)

\* a list without every occurrence of the entries of removes
WithoutAll(entries, removes) ==
    LET Kept(e) == ~InList(e, removes) IN SelectSeq(entries, Kept)

\* C25: on the USE_* variables, for every path variable of the un-used record
\* that is live and not empty, the value after unuse.unuse_paths is the live
\* list without the surviving candidate entries: none of them is left, also
\* when the live list held it more than once, and the other entries are kept
\* once per occurrence in their order.
C25_EveryOccurrenceRemoved ==
    \A j \in 1..Len(trace) :
        (mode = "env" /\ trace[j].op = "unuse" /\ HasRecord(trace[j].pre, trace[j].arg))
        => LET s == trace[j].pre
               branch == get_branch_from_use_pkg_name(trace[j].arg)
           IN  \A v \in PathVarsOf(ReadUsePkg(trace[j].arg)) :
                   (Has(s.ev, v) /\ s.ev[v] # <<>>)
                   => EntriesOf(Post(j), v)
                          = WithoutAll(EntriesOf(s, v),
                                       env_paths_to_remove(s.ub, s.bv, branch, v))

\* C26: on either ledger, the directive an unuse prints for a path variable
\* of the un-used record is an unset when no entry is left and a set of the
\* entries that are left otherwise, so it never sets the variable to the
\* empty value; and a path variable that did not exist before a branch was
\* activated does not exist after the unuse that follows the activation.
C26_UnsetExactlyWhenEmpty ==
    \A j \in 1..Len(trace) :
        (trace[j].op = "unuse" /\ HasRecord(trace[j].pre, trace[j].arg))
        => \A v \in PathVarsOf(ReadUsePkg(trace[j].arg)) :
               /\ \A d \in 1..Len(trace[j].out) :
                      (trace[j].out[d].n = v /\ trace[j].out[d].k = "export")
                      => trace[j].out[d].v # <<>>
               /\ (j > 1 /\ ActivatedThenUnused(j - 1, j) /\ ~Has(trace[j - 1].pre.ev, v))
                  => ~Has(Post(j).ev, v)

\* the prepend / postpend list of a package for a path variable
PrependsOf(p, v) ==
    IF Has(ReadUsePkg(p).prepends, v) THEN ReadUsePkg(p).prepends[v] ELSE <<>>

PostpendsOf(p, v) ==
    IF Has(ReadUsePkg(p).postpends, v) THEN ReadUsePkg(p).postpends[v] ELSE <<>>

\* C27: on the history file, for every path variable of a package the value
\* format_paths_for_shell sets at the activation is the prepend list, then
\* the live entries that are in neither list, then the postpend list without
\* the entries of the prepend list, each list in its listed order.
C27_MergedPathValue ==
    \A i \in 1..Len(trace) :
        (mode = "file" /\ trace[i].op = "use"
         /\ ~HasRecord(trace[i].pre, trace[i].arg) /\ HasRecord(Post(i), trace[i].arg))
        => \A v \in PathVarsOf(ReadUsePkg(trace[i].arg)) :
               LET prepends == PrependsOf(trace[i].arg, v)
                   postpends == PostpendsOf(trace[i].arg, v)
                   remaining == WithoutAll(EntriesOf(trace[i].pre, v), prepends \o postpends)
               IN  /\ Has(Post(i).ev, v)
                   /\ Post(i).ev[v]
                          = JoinWith(prepends \o remaining \o WithoutAll(postpends, prepends),
                                     ":")

BranchNames == {BranchOf(p) : p \in PathPkgNames} \cup {"None"}

\* C29: on the USE_* variables, get_subsequent_use_packages(branch) returns
\* exactly the entries of USE_BRANCHES placed after the entry of the branch,
\* never an entry of the branch itself, and nothing when the entry of the
\* branch is the last one or when the branch has no entry.
C29_SubsequentAreTheLaterEntries ==
    mode = "env"
    => \A branch \in BranchNames :
           LET subsequent == get_subsequent_use_packages(useBranches, branch)
               Position(k) == useBranches[k].branch = branch
           IN  /\ \A k \in 1..Len(useBranches) :
                      InList(useBranches[k], subsequent)
                      <=> \E i \in 1..(k - 1) : Position(i)
               /\ \A m \in 1..Len(subsequent) :
                      /\ subsequent[m].branch # branch
                      /\ InList(subsequent[m], useBranches)
               /\ Len(subsequent) <= Len(useBranches)
               /\ (useBranches # <<>> /\ Position(Len(useBranches)))
                  => subsequent = <<>>
               /\ (~\E k \in 1..Len(useBranches) : Position(k))
                  => subsequent = <<>>

\* C29 happens: three branches were active, the last call un-used the second
\* of them, which had one package after it, and two branches are left
C29_Witness ==
    /\ mode = "env"
    /\ Len(useBranches) = 2
    /\ Len(trace) >= 4
    /\ trace[Len(trace)].op = "unuse"
    /\ Len(trace[Len(trace)].pre.ub) = 3
    /\ trace[Len(trace)].pre.ub[2].branch
           = get_branch_from_use_pkg_name(trace[Len(trace)].arg)
    /\ Len(get_subsequent_use_packages(
               trace[Len(trace)].pre.ub,
               get_branch_from_use_pkg_name(trace[Len(trace)].arg))) = 1
    /\ Len(get_subsequent_use_packages(useBranches, useBranches[1].branch)) = 1

\* C30: on the history file, the command of an unuse holds one directive, a
\* set or an unset, for every path variable of the un-used record, also when
\* the removal of the paths leaves one of the variables empty.
C30_OneDirectivePerPathVariable ==
    \A j \in 1..Len(trace) :
        (mode = "file" /\ trace[j].op = "unuse" /\ HasRecord(trace[j].pre, trace[j].arg))
        => \A v \in PathVarsOf(ReadUsePkg(trace[j].arg)) :
               \E d \in 1..Len(trace[j].out) :
                   /\ trace[j].out[d].n = v
                   /\ trace[j].out[d].k \in {"export", "unset"}
                   /\ \A e \in 1..Len(trace[j].out) :
                          trace[j].out[e].n = v => e = d

(***************************************************************************)
(* The substitution of the built-in variables.                             *)
(***************************************************************************)
\* the text a command line stands for: the value for a placeholder
RECURSIVE cmd_meaning(_)
cmd_meaning(parts) ==
    IF Len(parts) = 0 THEN <<>>
    ELSE (IF parts[1] = 0 THEN <<":">> ELSE get_built_in_vars("")[parts[1]].value)
         \o cmd_meaning(Tail(parts))

\* C31: sort_list_of_strings_by_length(keys, inverse=True) returns the keys
\* it was given, each as often as given, and no key before a longer one; so
\* format_cmds_for_shell replaces every placeholder by the value of its own
\* variable, and $VERSION is never replaced inside $VERSION_PATH or
\* $PRE_VERSION_PATH.
C31_LongestKeyFirst ==
    \A i \in 1..Len(trace) :
        trace[i].op = "format"
        => LET variables == trace[i].arg.variables
               keys == [k \in 1..Len(variables) |-> variables[k].key]
               sorted == sort_list_of_strings_by_length(keys, TRUE)
           IN  /\ Len(sorted) = Len(keys)
               /\ \A k \in 1..Len(keys) : Count(sorted, keys[k]) = Count(keys, keys[k])
               /\ \A a \in 1..Len(sorted), b \in 1..Len(sorted) :
                      a < b => Len(sorted[a]) >= Len(sorted[b])
               /\ trace[i].out[1].v = cmd_meaning(trace[i].arg.parts)

\* C31 happens: VERSION was put in the dictionary before VERSION_PATH and a
\* command line with $VERSION_PATH in it was formatted
C31_Witness ==
    /\ Len(trace) = 1
    /\ trace[1].op = "format"
    /\ trace[1].arg.variables[1].key = get_built_in_vars("")[4].key
    /\ trace[1].arg.parts = <<3, 4>>
    /\ trace[1].out[1].v = <<Sl>> \o V_version \o V_version

(***************************************************************************)
(* Whole sessions, and what a call leaves alone.                           *)
(***************************************************************************)
\* the calls so far are n activations of n different branches, from an empty
\* ledger, and then their n deactivations, the last activated first
ReverseOrderSession(n) ==
    /\ Len(trace) = 2 * n
    /\ trace[1].pre.hist = <<>> /\ trace[1].pre.ub = <<>>
    /\ \A i \in 1..n :
           /\ trace[i].op = "use"
           /\ trace[2 * n + 1 - i].op = "unuse"
           /\ trace[2 * n + 1 - i].arg = trace[i].arg
           /\ \A j \in 1..(i - 1) : BranchOf(trace[j].arg) # BranchOf(trace[i].arg)

\* C32: on either ledger, after any number of branches activated one after
\* another and then deactivated in the reverse order, with no change by
\* hand, the aliases and the variables of the shell are what they were at
\* the start and the ledger is empty.
C32_ReverseOrderRestores ==
    \A n \in 1..Len(trace) :
        ReverseOrderSession(n)
        => /\ aliases = trace[1].pre.al
           /\ env = trace[1].pre.ev
           /\ hist = <<>>
           /\ useBranches = <<>>
           /\ branchVars = trace[1].pre.bv

\* C33: on the history file, after a use that wrote the record of the
\* package's branch (the record names the file of the package) the name of
\* that record is the package that was activated, also when the branch was
\* held by another package before; so an unuse of that name finds the record.
C33_RecordNamesActivatedPackage ==
    \A i \in 1..Len(trace) :
        LET p == trace[i].arg
            history == Post(i).hist
        IN  (/\ mode = "file" /\ trace[i].op = "use"
             /\ has_section(history, BranchOf(p))
             /\ section_of(history, BranchOf(p)).use_package = ReadUsePkg(p).file)
            => /\ section_of(history, BranchOf(p)).name = p
               /\ hist_find_branch(history, p) = BranchOf(p)

\* C34: on the USE_* variables, an unuse prints alias directives only for
\* the aliases of NEW_ALIASES of the un-used record, and set / unset
\* directives only for the variables of its NEW_ENV_VARS and the path
\* variables of its prepend and postpend lists; every other alias and every
\* other variable of the shell is after the call what it was before.
C34_OnlyRecordedNamesTouched ==
    \A j \in 1..Len(trace) :
        (mode = "env" /\ trace[j].op = "unuse" /\ HasRecord(trace[j].pre, trace[j].arg))
        => LET s == trace[j].pre
               out == trace[j].out
               branch == get_branch_from_use_pkg_name(trace[j].arg)
               alias_names == DOMAIN getenv_branch(s.bv, branch, "NEW_ALIASES", EmptyDict)
               var_names ==
                   (DOMAIN getenv_branch(s.bv, branch, "NEW_ENV_VARS", EmptyDict))
                   \cup (DOMAIN getenv_branch(s.bv, branch, "NEW_PATH_PREPENDS", EmptyDict))
                   \cup (DOMAIN getenv_branch(s.bv, branch, "NEW_PATH_POSTPENDS", EmptyDict))
           IN  /\ \A d \in 1..Len(out) :
                      /\ out[d].k \in {"alias", "unalias"} => out[d].n \in alias_names
                      /\ out[d].k \in {"export", "unset"} => out[d].n \in var_names
               /\ \A n \in ((DOMAIN s.al) \cup (DOMAIN Post(j).al)) \ alias_names :
                      Restored(s.al, Post(j).al, n)
               /\ \A n \in ((DOMAIN s.ev) \cup (DOMAIN Post(j).ev)) \ var_names :
                      Restored(s.ev, Post(j).ev, n)

\* C34 happens: pA and pE are active, the unuse of pE printed a directive for
\* its path variable Q, and the aliases and the variable E of pA are as before
C34_Witness ==
    /\ mode = "env"
    /\ Len(trace) >= 3
    /\ trace[Len(trace)].op = "unuse" /\ trace[Len(trace)].arg = "pE"
    /\ HasRecord(trace[Len(trace)].pre, "pE")
    /\ HasRecord(trace[Len(trace)].pre, "pA")
    /\ \E d \in 1..Len(trace[Len(trace)].out) : trace[Len(trace)].out[d].n = "Q"
    /\ Has(env, "E") /\ env["E"] = V_1
    /\ Has(aliases, "ll") /\ aliases["ll"] = V_a
    /\ ~Has(env, "Q")

\* C35: on the history file, a use that sets a path variable of its package
\* keeps every entry the variable had before the call: the entries of the
\* new value that were in the old one are the old entries, each as often as
\* before and in the order they had.
C35_ActivationKeepsLiveEntries ==
    \A i \in 1..Len(trace) :
        (mode = "file" /\ trace[i].op = "use")
        => \A v \in PathVarsOf(ReadUsePkg(trace[i].arg)) :
               LET before == EntriesOf(trace[i].pre, v)
                   WasThere(entry) == InList(entry, before)
               IN  (\E d \in 1..Len(trace[i].out) :
                        trace[i].out[d].k = "export" /\ trace[i].out[d].n = v)
                   => SelectSeq(EntriesOf(Post(i), v), WasThere) = before

\* C35 happens: P held /a/b and, added by hand behind it, the entry /a that
\* pA lists as a prepend; pA was activated and P is as it was
C35_Witness ==
    /\ mode = "file"
    /\ Len(trace) >= 2
    /\ trace[Len(trace)].op = "use" /\ trace[Len(trace)].arg = "pA"
    /\ ~HasRecord(trace[Len(trace)].pre, "pA")
    /\ HasRecord(Snap, "pA")
    /\ EntriesOf(trace[Len(trace)].pre, "P") = <<P_ab, P_a>>
    /\ EntriesOf(Snap, "P") = <<P_ab, P_a>>

\* C36: on the USE_* variables, an unuse of an active branch that runs to its
\* end leaves the USE_<BRANCH>_* variables of every other active branch, a
\* branch of another name, as they were.
C36_OtherRecordsUnchanged ==
    \A j \in 1..Len(trace) :
        LET s == trace[j].pre
            branch == get_branch_from_use_pkg_name(trace[j].arg)
        IN  (/\ mode = "env" /\ trace[j].op = "unuse"
             /\ \E k \in 1..Len(s.ub) : s.ub[k].branch = branch
             /\ ~env_unuse_raises(s.ub, s.bv, branch))
            => \A k \in 1..Len(s.ub) :
                   s.ub[k].branch # branch
                   => Restored(s.bv, Post(j).bv, Upper(s.ub[k].branch))

\* C37: on the history file, a path that a package lists and that was no
\* whole entry of the variable before the package was activated is not taken
\* as already present, also when it is a part of the text of the stored
\* value: the unuse that follows the activation takes it out of the variable.
C37_WholeEntryTest ==
    \A j \in 2..Len(trace) :
        (mode = "file" /\ ActivatedThenUnused(j - 1, j))
        => \A v \in PathVarsOf(ReadUsePkg(trace[j].arg)) :
               \A n \in 1..Len(Listed(trace[j].arg, v)) :
                   LET entry == Listed(trace[j].arg, v)[n]
                   IN  (/\ Has(trace[j - 1].pre.ev, v)
                        /\ ~InList(entry, EntriesOf(trace[j - 1].pre, v))
                        /\ InList(entry, EntriesOf(trace[j].pre, v)))
                       => ~InList(entry, EntriesOf(Post(j), v))

====
